---------------------------- MODULE Spec2Model ----------------------------
(*******************************************************************************)
(* The supply-chain RAG system: its in-memory vector indexes, its              *)
(* detectors, its impact assessor and its pipelines                            *)
(*   PathwayVectorStore      src/src/core/rag/pathway_vector_store.py          *)
(*   SupplyChainVectorStore  src/src/core/rag/vector_store.py                  *)
(*   DisruptionDetector      src/src/core/detectors/disruption_detector.py     *)
(*   AIDisruptionDetector    src/src/core/detectors/ai_disruption_detector.py  *)
(*   ImpactAssessor          src/src/core/processors/impact_assessor.py        *)
(*   SupplyChainPipeline     src/src/core/pipeline/supply_chain_pipeline.py    *)
(*   PathwayRAGPipeline      src/src/core/pipeline/pathway_rag_pipeline.py     *)
(*                                                                             *)
(* A behaviour follows ONE index object; store_class says which class it       *)
(* is (the two global instances never touch each other's state).               *)
(*                                                                             *)
(* Abstractions.  A text is a name; the sentence-transformer maps it to a      *)
(* unit vector, modelled as a direction on a circle in steps of 30             *)
(* degrees, so that the inner product of two embeddings is the cosine of       *)
(* the angle between them, kept as an integer (cosine * 100).  A metadata      *)
(* dict is a function from keys to values.  Time is a counter of minutes       *)
(* read by datetime.utcnow().  A score is a float, kept as an integer          *)
(* number of hundred-thousandths, so that the sums and products of the         *)
(* scorers are exact.  An event is a dict of typed values; the events at       *)
(* hand are held by their names (Named).  An answer of the language model      *)
(* is one of a few texts.                                                      *)
(*                                                                             *)
(* Spec         calls made one after the other by one caller                   *)
(* PersistSpec  SupplyChainVectorStore with save_index, load_index and a       *)
(*              caller that writes to the dicts it shares with the store       *)
(* ThreadSpec   calls of two threads, statement by statement                   *)
(* DetectSpec   calls of the detectors, of the assessor and of                 *)
(*              SupplyChainPipeline on a batch of events                       *)
(* AISpec       detect_disruptions_ai from one await of the model to the       *)
(*              next; FairAISpec adds the fairness of the event loop           *)
(* LoopSpec     the rows of the stream, the analysis endpoint and the          *)
(*              retrieval of context, on one index                             *)
(* LockSpec     calls of two threads on one PathwayVectorStore, each           *)
(*              thread scheduled and served by the lock                        *)
(* AssessSpec   assess_impact on a DisruptionEvent, which events holds         *)
(*              itself                                                         *)
(* RefreshSpec  collect_data_batch and get_status of SupplyChainPipeline       *)
(*              while the clock advances                                       *)
(*******************************************************************************)
EXTENDS Integers, Sequences, FiniteSets, TLC

VARIABLES
    store_class,       \* which class the index object is an instance of
    dimension,         \* self.dimension
    index,             \* self.index: the FAISS IndexFlatIP, its vectors in order
    documents,         \* self.documents
    metadata,          \* self.metadata
    update_counter,    \* self.update_counter      (PathwayVectorStore)
    last_update_time,  \* self.last_update_time    (PathwayVectorStore)
    disk,              \* the files save_index wrote: <<>> or <<snapshot>>
    now,               \* the clock datetime.utcnow() reads
    op,                \* the call that returned last
    args,              \* its arguments
    ret,               \* the number a call returned: an id, a score
    results,           \* the list a call returned
    raised,            \* whether the call let an exception out
    stats,             \* the report get_real_time_stats / get_stats returned
    issued,            \* the ids the insert calls have returned, in call order
    lock,              \* self.lock, an RLock: [owner, count]
    pc,                \* per thread: the statement it is at
    frame,             \* per thread: the locals of its call
    seen,              \* per thread: what its last read-only call observed
    is_running,        \* SupplyChainPipeline.is_running
    database,          \* the rows _store_disruption has committed
    last_refresh,      \* SupplyChainPipeline.last_refresh: per source, the
                       \* time of its last fetch
    task,              \* a detection run: the await it is at, its locals and
                       \* the calls of the model it has made
    events             \* the names of the events at hand: the batch a caller
                       \* holds, the alerts the services answer, the rows the
                       \* stream delivers; or the DisruptionEvent at hand

storeVars  == <<store_class, dimension, index, documents, metadata,
                update_counter, last_update_time, disk, now>>
callVars   == <<op, args, ret, results, raised, stats, issued>>
threadVars == <<lock, pc, frame, seen>>
pipelineVars == <<is_running, database, last_refresh, task, events>>
vars       == <<storeVars, callVars, threadVars, pipelineVars>>

-----------------------------------------------------------------------------
(* Bounds of the model *)

\* vectors added to the index after construction
MaxInserts == 2
\* minutes the clock may advance
MaxTime == 1
\* inserts of the threads whose every call is followed to its return
MaxLockInserts == 1
\* minutes the clock of the pipeline may advance
MaxClock == 11
\* metadata dicts a caller writes to
MaxWrites == 1

-----------------------------------------------------------------------------
(* Python values *)

\* {} : the empty dict
EmptyDict == [key \in {} |-> TRUE]

\* {**d, key: value} : later keys win
DictSet(d, key, value) == (key :> value) @@ d

\* d.get(key, default)
DictGet(d, key, default) == IF key \in DOMAIN d THEN d[key] ELSE default

\* The metadata arguments a caller passes: None, a non-empty dict, and a
\* non-empty JSON list such as [1] (truthy, but not a mapping).  A list has no
\* keys; its value is kept as a one-key function of its own so that stored
\* values stay comparable.
PyNone == [kind |-> "None", value |-> EmptyDict]

SomeDict == [kind |-> "dict", value |-> [type |-> "news"]]

SomeList == [kind |-> "list", value |-> [not_a_mapping |-> "[1]"]]

MetadataArgs == {PyNone, SomeDict, SomeList}

\* a dict argument
Dict(d) == [kind |-> "dict", value |-> d]

IsMapping(m) == m.kind = "dict"

\* bool(m): None and the empty containers are falsy
Truthy(m) == m.kind # "None" /\ DOMAIN m.value # {}

\* seq[idx] with Python's rules: idx counts from 0, a negative idx counts from
\* the end, anything else is an IndexError.
PyIndexOK(seq, idx) == (0 - Len(seq)) <= idx /\ idx < Len(seq)

PyGet(seq, idx) == IF idx >= 0 THEN seq[idx + 1] ELSE seq[Len(seq) + idx + 1]

Min(a, b) == IF a <= b THEN a ELSE b

-----------------------------------------------------------------------------
(* The embedding model and the FAISS index *)

\* SentenceTransformer('all-MiniLM-L6-v2') produces vectors of this size
EmbeddingDimension == 384

\* the dimension argument of the constructor
Dimensions == {EmbeddingDimension, 2 * EmbeddingDimension}

\* The texts of the model: the knowledge-base documents, one text no
\* knowledge base holds, and None (not a string).
KnowledgeTexts ==
    << "shanghai", "suez", "taiwan", "los_angeles", "typhoon", "jit",
       "pharma", "rotterdam", "cyber", "wheat" >>

Texts == {"suez", "alert", "None"}

\* embedding_model.encode([text]) raises on what is not a string
EncodeRaises(text) == text = "None"

\* encode([text])[0] / norm: the direction of the text, in steps of 30 degrees
Encode(text) ==
    IF text = "alert" THEN 11
    ELSE (CHOOSE i \in 1..Len(KnowledgeTexts) : KnowledgeTexts[i] = text) - 1

\* cosine * 100 of a multiple of 30 degrees
Cosine == << 100, 87, 50, 0, -50, -87, -100, -87, -50, 0, 50, 87 >>

\* inner product of two unit vectors
InnerProduct(a, b) == Cosine[((a - b + 12) % 12) + 1]

\* the score FAISS reports in a slot it has no vector for (-FLT_MAX); the
\* label of such a slot is -1
FaissPadScore == -1000

\* index.add / index.search raise when the vector's size is not the index's
FaissRaises(d) == d # EmbeddingDimension

\* the inner product of every vector of the index with the query
Scores(ix, q) == [ i \in 1..Len(ix) |-> InnerProduct(ix[i], q) ]

\* The slots of an answer from the best of the labels not yet taken on: the
\* highest inner product first and, of equal ones, the lowest label first; a
\* slot the index has no vector for is padded.
RECURSIVE FaissTopK(_, _, _)

\* the slot of label best, then the slots after it
FaissTake(sc, k, taken, best) ==
    << [score |-> sc[best], idx |-> best - 1] >>
        \o FaissTopK(sc, k - 1, taken \cup {best})

FaissTopK(sc, k, taken) ==
    IF k = 0 THEN << >>
    ELSE IF (1..Len(sc)) \ taken = {}
    THEN << [score |-> FaissPadScore, idx |-> -1] >> \o FaissTopK(sc, k - 1, taken)
    ELSE FaissTake(sc, k, taken,
                   CHOOSE i \in (1..Len(sc)) \ taken :
                       \A j \in (1..Len(sc)) \ taken :
                           sc[j] < sc[i] \/ (sc[j] = sc[i] /\ i <= j))

\* index.search(query, k): k slots, best first
FaissSearch(ix, q, k) == FaissTopK(Scores(ix, q), k, {})

-----------------------------------------------------------------------------
(* The state of one index object, as a record the operations work on *)

Self ==
    [index |-> index, documents |-> documents, metadata |-> metadata,
     update_counter |-> update_counter, last_update_time |-> last_update_time]

\* the fields as __init__ sets them before the knowledge base is loaded
EmptyStore(t) ==
    [index |-> << >>, documents |-> << >>, metadata |-> << >>,
     update_counter |-> 0, last_update_time |-> t]

-----------------------------------------------------------------------------
(* PathwayVectorStore *)

\* the dict add_document_streaming stores: the caller's keys, then its own
StreamingMetadata(m, counter, t) ==
    [added_at |-> t, update_id |-> counter, real_time |-> TRUE]
        @@ (IF Truthy(m) THEN m.value ELSE EmptyDict)

\* {**(metadata or {}), ...} raises TypeError on a truthy non-mapping
UnpackRaises(m) == Truthy(m) /\ ~IsMapping(m)

\* the statements of add_document_streaming after index.add, in program
\* order; an exception leaves what the earlier statements did
StoreDocumentStreamingReordered(s, text, m, t) ==
    IF UnpackRaises(m)
    THEN [store |-> s, ret |-> -1]
    ELSE [store |-> [s EXCEPT
                        !.documents = Append(@, text),
                        !.metadata = Append(@, StreamingMetadata(m, s.update_counter, t)),
                        !.update_counter = @ + 1,
                        !.last_update_time = t],
          ret |-> Len(s.documents)]

StoreDocumentStreaming(s, text, m, t) ==
    LET s1 == [s EXCEPT !.documents = Append(@, text)]
    IN IF UnpackRaises(m)
       THEN [store |-> s1, ret |-> -1]
       ELSE [store |-> [s1 EXCEPT
                           !.metadata = Append(@, StreamingMetadata(m, s.update_counter, t)),
                           !.update_counter = @ + 1,
                           !.last_update_time = t],
             ret |-> Len(s1.documents) - 1]

\* what add_document_streaming does when encode or index.add raises, counting
\* the attempt as an update
EmbeddingFailedStreamingCounted(s, t) ==
    [store |-> [s EXCEPT !.update_counter = @ + 1, !.last_update_time = t],
     ret |-> -1]

\* what add_document_streaming does when encode or index.add raises: the
\* except clause returns -1
EmbeddingFailedStreaming(s, t) == [store |-> s, ret |-> -1]

\* add_document_streaming(text, metadata) at time t: the store after the
\* call and the value returned
AddDocumentStreaming(s, d, text, m, t) ==
    IF EncodeRaises(text) \/ FaissRaises(d)
    THEN EmbeddingFailedStreaming(s, t)
    ELSE StoreDocumentStreaming(
             [s EXCEPT !.index = Append(@, Encode(text))], text, m, t)

\* _calculate_freshness(metadata) at time t
CalculateFreshness(md, t) ==
    LET age_seconds == (t - DictGet(md, "added_at", t)) * 60
    IN CASE age_seconds < 60    -> "live"
         [] age_seconds < 3600  -> "recent"
         [] age_seconds < 86400 -> "today"
         [] OTHER               -> "historical"

\* the test of the result loop on one slot of a FAISS answer
Keeps(s, hit, threshold) == hit.score >= threshold /\ hit.idx < Len(s.documents)

\* the slots the result loop keeps
Kept(s, hits, threshold) == { i \in 1..Len(hits) : Keeps(s, hits[i], threshold) }

\* the result loop raises IndexError when a kept slot names no document or
\* no metadata
ResultLoopRaises(s, hits, threshold) ==
    \E i \in Kept(s, hits, threshold) :
        ~PyIndexOK(s.documents, hits[i].idx) \/ ~PyIndexOK(s.metadata, hits[i].idx)

\* the position in self.metadata of the dict a slot's result shares
Ref(s, idx) == IF idx >= 0 THEN idx ELSE Len(s.metadata) + idx

\* the dict the loop appends for slot i (rank i)
ResultStreaming(document, md, hit, i, t) ==
    [document |-> document,
     metadata |-> md,
     score    |-> hit.score,
     rank     |-> i,
     real_time_freshness |-> CalculateFreshness(md, t)]

\* the result loop of search_real_time from slot i on
RECURSIVE ResultsStreaming(_, _, _, _, _)
ResultsStreaming(s, hits, threshold, t, i) ==
    IF i > Len(hits) THEN << >>
    ELSE (IF Keeps(s, hits[i], threshold)
          THEN << ResultStreaming(PyGet(s.documents, hits[i].idx),
                                  PyGet(s.metadata, hits[i].idx), hits[i], i, t) >>
          ELSE << >>)
         \o ResultsStreaming(s, hits, threshold, t, i + 1)

\* an except clause that lets the exception out
ExceptReraises == [results |-> << >>, raised |-> TRUE]

\* the except clause of the search methods: log and return []
ExceptReturnsEmpty == [results |-> << >>, raised |-> FALSE]

\* the result loop of search_real_time inside its try
ResultLoopStreaming(s, hits, threshold, t) ==
    IF ResultLoopRaises(s, hits, threshold)
    THEN ExceptReturnsEmpty
    ELSE [results |-> ResultsStreaming(s, hits, threshold, t, 1), raised |-> FALSE]

\* search_real_time(query, k, threshold) at time t
SearchRealTime(s, d, query, k, threshold, t) ==
    IF Len(s.index) = 0
    THEN [results |-> << >>, raised |-> FALSE]
    ELSE IF EncodeRaises(query) \/ FaissRaises(d) \/ Min(k, Len(s.index)) <= 0
    THEN ExceptReturnsEmpty
    ELSE ResultLoopStreaming(
             s, FaissSearch(s.index, Encode(query), Min(k, Len(s.index))),
             threshold, t)

\* the positions get_recent_updates(minutes) reports at time t; reading
\* self.documents[i] is inside the try, so a position without a document is
\* skipped
RecentPositions(s, minutes, t) ==
    { i \in 0..(Len(s.metadata) - 1) :
        /\ "added_at" \in DOMAIN s.metadata[i + 1]
        /\ s.metadata[i + 1]["added_at"] > t - minutes
        /\ i < Len(s.documents) }

\* sorted(..., key=added_at, reverse=True): newest first, and as the sort is
\* stable, equal keys in list order.  The positions of P that the sort puts
\* before position i:
SortedBefore(s, P, i) ==
    { j \in P :
        \/ s.metadata[j + 1]["added_at"] > s.metadata[i + 1]["added_at"]
        \/ /\ s.metadata[j + 1]["added_at"] = s.metadata[i + 1]["added_at"]
           /\ j < i }

\* the entry get_recent_updates builds for position i
RecentUpdate(s, i) ==
    [document_id |-> i,
     content     |-> s.documents[i + 1],
     metadata    |-> s.metadata[i + 1],
     added_at    |-> s.metadata[i + 1]["added_at"]]

SortNewestFirst(s, P) ==
    [ place \in 1..Cardinality(P) |->
        RecentUpdate(s, CHOOSE i \in P : Cardinality(SortedBefore(s, P, i)) = place - 1) ]

\* get_recent_updates(minutes) at time t
GetRecentUpdates(s, minutes, t) == SortNewestFirst(s, RecentPositions(s, minutes, t))

\* get_current_size()
GetCurrentSize(s) == Len(s.documents)

\* the counters of the dict get_real_time_stats returns
StatsCounters(s) ==
    [total_documents |-> Len(s.documents),
     index_size      |-> Len(s.index),
     last_update     |-> s.last_update_time,
     update_counter  |-> s.update_counter]

\* get_real_time_stats() at time t
GetRealTimeStats(s, d, t) ==
    StatsCounters(s)
        @@ [dimension            |-> d,
            recent_updates_count |-> Len(GetRecentUpdates(s, 60, t))]

\* json.loads(metadata_str) if metadata_str else {} : the strings the Pathway
\* connector may deliver, and the value each parses to ("" is falsy)
MetadataStrings == {"", "{\"type\": \"news\"}", "[1]", "not json"}

JsonLoadsRaises(str) == str = "not json"

JsonLoads(str) ==
    CASE str = "{\"type\": \"news\"}" -> SomeDict
      [] str = "[1]"                  -> SomeList
      [] OTHER                        -> Dict(EmptyDict)

\* base_knowledge of _initialize_base_knowledge
PathwayBaseKnowledge ==
    << [content |-> "shanghai",
        metadata |-> Dict([type |-> "port_info", location |-> "Shanghai, China",
                           importance |-> 10, real_time |-> TRUE])],
       [content |-> "suez",
        metadata |-> Dict([type |-> "waterway_info", location |-> "Suez Canal, Egypt",
                           importance |-> 10, real_time |-> TRUE])],
       [content |-> "taiwan",
        metadata |-> Dict([type |-> "sector_info", location |-> "Taiwan",
                           importance |-> 9, real_time |-> TRUE])] >>

\* PathwayVectorStore(dimension) at time t: the fields, then one
\* add_document_streaming per knowledge document
RECURSIVE InitializeBaseKnowledge(_, _, _, _)
InitializeBaseKnowledge(s, d, docs, t) ==
    IF docs = << >> THEN s
    ELSE InitializeBaseKnowledge(
             AddDocumentStreaming(s, d, Head(docs).content, Head(docs).metadata, t).store,
             d, Tail(docs), t)

-----------------------------------------------------------------------------
(* SupplyChainVectorStore *)

\* add_document keeping the text in the slot of the last document
StoreDocumentOverwriting(s, text, m) ==
    [store |-> [s EXCEPT
                   !.documents = IF @ = << >> THEN << text >>
                                 ELSE [@ EXCEPT ![Len(@)] = text],
                   !.metadata = Append(@, IF Truthy(m) THEN m.value ELSE EmptyDict)],
     ret |-> Len(s.documents) - (IF s.documents = << >> THEN 0 ELSE 1)]

\* the statements of add_document after index.add: the text, then
\* metadata or {}, then doc_id = len(self.documents) - 1
StoreDocument(s, text, m) ==
    [store |-> [s EXCEPT
                   !.documents = Append(@, text),
                   !.metadata = Append(@, IF Truthy(m) THEN m.value ELSE EmptyDict)],
     ret |-> Len(s.documents)]

\* add_document(text, metadata): the store after the call and the value
\* returned; the except clause returns -1
AddDocument(s, d, text, m) ==
    IF EncodeRaises(text) \/ FaissRaises(d)
    THEN [store |-> s, ret |-> -1]
    ELSE StoreDocument([s EXCEPT !.index = Append(@, Encode(text))], text, m)

\* the dict the loop of search appends for slot i (rank i); its metadata is
\* the very dict self.metadata holds at position ref, not a copy
Result(document, md, hit, i, ref) ==
    [document |-> document, metadata |-> md, score |-> hit.score, rank |-> i,
     ref |-> ref]

\* the result loop of search from slot i on
RECURSIVE Results(_, _, _, _)
Results(s, hits, threshold, i) ==
    IF i > Len(hits) THEN << >>
    ELSE (IF Keeps(s, hits[i], threshold)
          THEN << Result(PyGet(s.documents, hits[i].idx),
                         PyGet(s.metadata, hits[i].idx), hits[i], i,
                         Ref(s, hits[i].idx)) >>
          ELSE << >>)
         \o Results(s, hits, threshold, i + 1)

\* the result loop of search inside its try
ResultLoop(s, hits, threshold) ==
    IF ResultLoopRaises(s, hits, threshold)
    THEN ExceptReturnsEmpty
    ELSE [results |-> Results(s, hits, threshold, 1), raised |-> FALSE]

\* search(query, k, threshold): index.search is asked for k slots whatever
\* the index holds, and raises unless k > 0
Search(s, d, query, k, threshold) ==
    IF EncodeRaises(query) \/ FaissRaises(d) \/ k <= 0
    THEN ExceptReturnsEmpty
    ELSE ResultLoop(s, FaissSearch(s.index, Encode(query), k), threshold)

\* _get_document_type_counts calls metadata.get, which a list does not have
TypeCountsRaises(s) ==
    \E i \in 1..Len(s.metadata) : "not_a_mapping" \in DOMAIN s.metadata[i]

\* _get_document_type_counts()
GetDocumentTypeCounts(s) ==
    LET type(i) == DictGet(s.metadata[i], "type", "unknown")
    IN [ ty \in { type(i) : i \in 1..Len(s.metadata) } |->
           Cardinality({ i \in 1..Len(s.metadata) : type(i) = ty }) ]

\* get_stats(), which has no except clause
GetStats(s, d) ==
    [total_documents |-> Len(s.documents),
     index_size      |-> Len(s.index),
     dimension       |-> d,
     document_types  |-> IF TypeCountsRaises(s) THEN EmptyDict
                         ELSE GetDocumentTypeCounts(s)]

\* save_index(filepath): the index file and the .json file beside it
SaveIndex(s, d) ==
    << [index |-> s.index, documents |-> s.documents,
        metadata |-> s.metadata, dimension |-> d] >>

\* knowledge_docs of _initialize_knowledge_base; each document is its own
\* metadata (its location and importance, which no method of the model
\* reads, are left out)
KnowledgeTypes ==
    << "port_info", "waterway_info", "sector_info", "port_info",
       "weather_pattern", "sector_vulnerability", "sector_info", "port_info",
       "cyber_threat", "agriculture_info" >>

KnowledgeDocs ==
    [ i \in 1..Len(KnowledgeTexts) |->
        [content |-> KnowledgeTexts[i],
         metadata |-> Dict([content |-> KnowledgeTexts[i],
                            type |-> KnowledgeTypes[i]])] ]

\* SupplyChainVectorStore(dimension): the fields, then one add_document per
\* knowledge document
RECURSIVE InitializeKnowledgeBase(_, _, _)
InitializeKnowledgeBase(s, d, docs) ==
    IF docs = << >> THEN s
    ELSE InitializeKnowledgeBase(
             AddDocument(s, d, Head(docs).content, Head(docs).metadata).store,
             d, Tail(docs))

-----------------------------------------------------------------------------
(* Construction *)

StoreClasses == {"PathwayVectorStore", "SupplyChainVectorStore"}

IsPathway == store_class = "PathwayVectorStore"

IsSupplyChain == store_class = "SupplyChainVectorStore"

\* the object a constructor call leaves, at time t
Construct(class, d, t) ==
    IF class = "PathwayVectorStore"
    THEN InitializeBaseKnowledge(EmptyStore(t), d, PathwayBaseKnowledge, t)
    ELSE InitializeKnowledgeBase(EmptyStore(t), d, KnowledgeDocs)

\* the arguments of the call that returned last
NoArgs == [text |-> "", metadata |-> "", k |-> 0, threshold |-> 0]

NoStats == [total_documents |-> 0, index_size |-> 0, update_counter |-> 0,
            last_update |-> 0]

Threads == {"t1", "t2"}

\* the locals of a call: its arguments, the with-blocks it is inside, the
\* answer of index.search, the answer of the nested get_recent_updates (-1:
\* not called yet), and whether an insert of another thread was in flight at
\* some moment of the call
NoFrame == [call |-> "", text |-> "", metadata |-> PyNone, k |-> 0,
            threshold |-> 0, depth |-> 0, hits |-> << >>, recent |-> -1,
            concurrent |-> FALSE]

\* the lengths and the counter a call read
NoObserved == [vectors |-> 0, texts |-> 0, records |-> 0, counter |-> 0]

\* what a thread's last call returned and read
NoSeen == [call |-> "", text |-> "", metadata |-> PyNone, ret |-> -1,
           results |-> << >>, qualifying |-> 0, raised |-> FALSE,
           concurrent |-> FALSE, observed |-> NoObserved]

NoLock == [owner |-> "", count |-> 0]

\* No detection run is under way.  A run is a coroutine: where it waits
\* (for the answer to the relevance prompt or to the analysis prompt of a
\* record), whether its detector holds a model client, the position in the
\* events of the record it is at (for a stream, of the last row delivered),
\* the answer that has arrived, the disruptions appended so far and the
\* model calls made.
NoTask == [at |-> "idle", client |-> FALSE, record |-> 0, response |-> "",
           disruptions |-> << >>, calls |-> << >>]

\* the objects after construction
Constructed ==
    /\ store_class \in StoreClasses
    /\ dimension \in Dimensions
    /\ now = 0
    /\ LET s == Construct(store_class, dimension, 0)
       IN /\ index = s.index
          /\ documents = s.documents
          /\ metadata = s.metadata
          /\ update_counter = s.update_counter
          /\ last_update_time = s.last_update_time
    /\ issued = << >>
    /\ disk = << >>
    /\ op = "__init__"
    /\ args = NoArgs
    /\ ret = -1
    /\ results = << >>
    /\ raised = FALSE
    /\ stats = NoStats
    /\ lock = NoLock
    /\ pc = [t \in Threads |-> "idle"]
    /\ frame = [t \in Threads |-> NoFrame]
    /\ seen = [t \in Threads |-> NoSeen]
    /\ is_running = FALSE
    /\ database = << >>
    /\ last_refresh = << >>

\* no event is at hand
Init == Constructed /\ events = << >> /\ task = NoTask

\* the object's fields become those of record s
Becomes(s) ==
    /\ index' = s.index
    /\ documents' = s.documents
    /\ metadata' = s.metadata
    /\ update_counter' = s.update_counter
    /\ last_update_time' = s.last_update_time

\* the vectors the constructor leaves in the index
BaseVectors ==
    IF FaissRaises(dimension) THEN 0
    ELSE IF IsPathway THEN Len(PathwayBaseKnowledge) ELSE Len(KnowledgeDocs)

\* room for one more vector within the bound of the model
RoomToInsert ==
    /\ Len(index) < MaxInserts + BaseVectors
    /\ Len(issued) < MaxInserts

\* an insert call returned id
Returns(id) ==
    /\ ret' = id
    /\ issued' = IF id >= 0 THEN Append(issued, id) ELSE issued

-----------------------------------------------------------------------------
(* Calls made one after the other *)

\* The searches of the model: each query text with one result at the highest
\* threshold, with more results than the index holds at a middle threshold
\* and at the lowest one, then a query that is not a string and a k that is
\* not positive.
SearchInputs ==
    { [text |-> text, k |-> kt[1], threshold |-> kt[2]] :
        text \in Texts \ {"None"},
        kt \in {<<1, 100>>, <<12, 30>>, <<12, FaissPadScore>>} }
        \cup {[text |-> "None", k |-> 1, threshold |-> 30],
              [text |-> "suez", k |-> 0, threshold |-> 30]}

\* datetime.utcnow() moves on; only PathwayVectorStore reads it
Tick ==
    /\ IsPathway
    /\ now < MaxTime
    /\ now' = now + 1
    /\ UNCHANGED <<pipelineVars, store_class, dimension, index, documents, metadata,
                   update_counter, last_update_time, disk>>
    /\ UNCHANGED <<callVars, threadVars>>

add_document_streaming ==
    /\ IsPathway
    /\ stats' = NoStats
    /\ RoomToInsert
    /\ \E text \in Texts, m \in MetadataArgs :
         LET out == AddDocumentStreaming(Self, dimension, text, m, now)
         IN /\ Becomes(out.store)
            /\ op' = "add_document_streaming"
            /\ args' = [NoArgs EXCEPT !.text = text, !.metadata = m.kind]
            /\ Returns(out.ret)
    /\ results' = << >>
    /\ raised' = FALSE
    /\ UNCHANGED <<pipelineVars, store_class, dimension, disk, now, threadVars>>

\* _pathway_add_document(content, metadata_str), both strings by the
\* connector's schema: json.loads, then add_document_streaming.  It answers
\* "error" when json.loads raises and "doc_<id>" otherwise, so ret is the id
\* inside the answer.
pathway_add_document ==
    /\ IsPathway
    /\ stats' = NoStats
    /\ RoomToInsert
    /\ \E content \in Texts \ {"None"}, str \in MetadataStrings :
         /\ op' = "_pathway_add_document"
         /\ args' = [NoArgs EXCEPT !.text = content, !.metadata = str]
         /\ IF JsonLoadsRaises(str)
            THEN /\ ret' = -1
                 /\ UNCHANGED <<index, documents, metadata, update_counter,
                                last_update_time, issued>>
            ELSE LET out == AddDocumentStreaming(Self, dimension, content,
                                                 JsonLoads(str), now)
                 IN /\ Becomes(out.store)
                    /\ Returns(out.ret)
    /\ results' = << >>
    /\ raised' = FALSE
    /\ UNCHANGED <<pipelineVars, store_class, dimension, disk, now, threadVars>>

search_real_time ==
    /\ IsPathway
    /\ stats' = NoStats
    /\ \E in \in SearchInputs :
         LET out == SearchRealTime(Self, dimension, in.text, in.k, in.threshold, now)
         IN /\ op' = "search_real_time"
            /\ args' = [NoArgs EXCEPT !.text = in.text, !.k = in.k,
                                      !.threshold = in.threshold]
            /\ results' = out.results
            /\ raised' = out.raised
    /\ ret' = -1
    /\ UNCHANGED <<pipelineVars, storeVars, issued, threadVars>>

get_current_size ==
    /\ IsPathway
    /\ stats' = NoStats
    /\ op' = "get_current_size"
    /\ args' = NoArgs
    /\ ret' = GetCurrentSize(Self)
    /\ results' = << >>
    /\ raised' = FALSE
    /\ UNCHANGED <<pipelineVars, storeVars, issued, threadVars>>

\* the windows, in minutes, the model asks get_recent_updates for: the last
\* minute, and the default of get_context_for_event and get_real_time_stats
RecentWindows == {1, 30}

get_recent_updates ==
    /\ IsPathway
    /\ \E minutes \in RecentWindows :
         /\ results' = GetRecentUpdates(Self, minutes, now)
         /\ args' = [minutes |-> minutes, at |-> now]
    /\ op' = "get_recent_updates"
    /\ ret' = -1
    /\ raised' = FALSE
    /\ stats' = NoStats
    /\ UNCHANGED <<pipelineVars, storeVars, issued, threadVars>>

get_real_time_stats ==
    /\ IsPathway
    /\ op' = "get_real_time_stats"
    /\ args' = NoArgs
    /\ stats' = GetRealTimeStats(Self, dimension, now)
    /\ ret' = -1
    /\ results' = << >>
    /\ raised' = FALSE
    /\ UNCHANGED <<pipelineVars, storeVars, issued, threadVars>>

add_document ==
    /\ IsSupplyChain
    /\ stats' = NoStats
    /\ RoomToInsert
    /\ \E text \in Texts, m \in MetadataArgs :
         LET out == AddDocument(Self, dimension, text, m)
         IN /\ Becomes(out.store)
            /\ op' = "add_document"
            /\ args' = [NoArgs EXCEPT !.text = text, !.metadata = m.kind]
            /\ Returns(out.ret)
    /\ results' = << >>
    /\ raised' = FALSE
    /\ UNCHANGED <<pipelineVars, store_class, dimension, disk, now, threadVars>>

search ==
    /\ IsSupplyChain
    /\ stats' = NoStats
    /\ \E in \in SearchInputs :
         LET out == Search(Self, dimension, in.text, in.k, in.threshold)
         IN /\ op' = "search"
            /\ args' = [NoArgs EXCEPT !.text = in.text, !.k = in.k,
                                      !.threshold = in.threshold]
            /\ results' = out.results
            /\ raised' = out.raised
    /\ ret' = -1
    /\ UNCHANGED <<pipelineVars, storeVars, issued, threadVars>>

get_stats ==
    /\ IsSupplyChain
    /\ op' = "get_stats"
    /\ args' = NoArgs
    /\ stats' = GetStats(Self, dimension)
    /\ raised' = TypeCountsRaises(Self)
    /\ ret' = -1
    /\ results' = << >>
    /\ UNCHANGED <<pipelineVars, storeVars, issued, threadVars>>

save_index ==
    /\ IsSupplyChain
    /\ stats' = NoStats
    /\ disk' = SaveIndex(Self, dimension)
    /\ op' = "save_index"
    /\ args' = NoArgs
    /\ ret' = -1
    /\ results' = << >>
    /\ raised' = FALSE
    /\ UNCHANGED <<pipelineVars, store_class, dimension, index, documents, metadata,
                   update_counter, last_update_time, now, issued,
                   threadVars>>

\* load_index(filepath): faiss.read_index raises when no file was saved, and
\* the except clause leaves the object as it was
load_index ==
    /\ IsSupplyChain
    /\ stats' = NoStats
    /\ IF disk = << >>
       THEN UNCHANGED <<index, documents, metadata, dimension>>
       ELSE /\ index' = disk[1].index
            /\ documents' = disk[1].documents
            /\ metadata' = disk[1].metadata
            /\ dimension' = disk[1].dimension
    /\ op' = "load_index"
    /\ args' = NoArgs
    /\ ret' = -1
    /\ results' = << >>
    /\ raised' = FALSE
    /\ UNCHANGED <<pipelineVars, store_class, update_counter, last_update_time, disk, now,
                   issued, threadVars>>

Next ==
    \/ Tick
    \/ add_document_streaming
    \/ pathway_add_document
    \/ search_real_time
    \/ get_current_size
    \/ get_recent_updates
    \/ get_real_time_stats
    \/ add_document
    \/ search
    \/ get_stats

Spec == Init /\ [][Next]_vars

\* The caller writes a key into a metadata dict it holds a reference to: the
\* dict it has just passed to add_document (metadata or {} keeps a truthy
\* argument itself), or the dict of the top result search has just returned.
caller_mutates_metadata ==
    /\ IsSupplyChain
    /\ Cardinality({ p \in 1..Len(metadata) : "tampered" \in DOMAIN metadata[p] })
         < MaxWrites
    /\ \E p \in 1..Len(metadata) :
         /\ \/ op = "add_document" /\ args.metadata = "dict" /\ ret = p - 1
            \/ op = "search" /\ results # << >> /\ results[1].ref = p - 1
         /\ metadata' = [metadata EXCEPT ![p] = DictSet(@, "tampered", TRUE)]
    /\ op' = "caller"
    /\ args' = NoArgs
    /\ ret' = -1
    /\ results' = << >>
    /\ raised' = FALSE
    /\ stats' = NoStats
    /\ UNCHANGED <<pipelineVars, store_class, dimension, index, documents, update_counter,
                   last_update_time, disk, now, issued, threadVars>>

\* SupplyChainVectorStore with its index saved to disk and loaded back, and
\* a caller that writes to the dicts it shares with the store
NextPersist ==
    \/ add_document
    \/ search
    \/ save_index
    \/ load_index
    \/ caller_mutates_metadata

PersistSpec == Init /\ [][NextPersist]_vars

-----------------------------------------------------------------------------
(* Calls made by two threads, statement by statement *)

InsertCalls == {"add_document_streaming", "add_document"}

PathwayReaders ==
    {"search_real_time", "get_recent_updates", "get_current_size",
     "get_real_time_stats"}

\* the search the threads make
ThreadSearches ==
    { in \in SearchInputs : in.text = "alert" /\ in.k = 12 /\ in.threshold = 30 }

\* the text a thread inserts, its own
ThreadText(t) == IF t = "t1" THEN "suez" ELSE "alert"

\* the metadata arguments the threads pass: those add_document_streaming
\* treats differently, and those add_document does
ThreadMetadataArgs ==
    IF store_class = "PathwayVectorStore" THEN {SomeDict, SomeList}
    ELSE {PyNone, SomeDict}

\* thread t is inside a call
InFlight(t) == pc[t] # "idle"

\* an insert of a thread other than t is in flight
InsertInFlight(t) ==
    \E u \in Threads \ {t} : InFlight(u) /\ frame[u].call \in InsertCalls

\* the inserts in flight that have not added their vector yet
PendingVectors ==
    Cardinality({ u \in Threads :
                    /\ frame[u].call \in InsertCalls
                    /\ pc[u] \in {"acquire", "index_add"} })

\* thread t enters call with locals f; what its call before returned is
\* forgotten; the calls in flight know from now on
\* whether they overlap an insert
Enters(t, f, at) ==
    /\ pc[t] = "idle"
    /\ pc' = [pc EXCEPT ![t] = at]
    /\ frame' = [ u \in Threads |->
                    IF u = t THEN [f EXCEPT !.concurrent = InsertInFlight(t)]
                    ELSE IF InFlight(u) /\ f.call \in InsertCalls
                    THEN [frame[u] EXCEPT !.concurrent = TRUE]
                    ELSE frame[u] ]
    /\ seen' = [seen EXCEPT ![t] = NoSeen]

\* thread t's call returns: what it returned and read is kept in seen
Leaves(t, ret_, results_, qualifying_, raised_, observed_) ==
    /\ pc' = [pc EXCEPT ![t] = "idle"]
    /\ frame' = [frame EXCEPT ![t] = NoFrame]
    /\ seen' = [seen EXCEPT ![t] =
                  [call |-> frame[t].call, text |-> frame[t].text,
                   metadata |-> frame[t].metadata, ret |-> ret_,
                   results |-> results_, qualifying |-> qualifying_,
                   raised |-> raised_, concurrent |-> frame[t].concurrent,
                   observed |-> observed_]]

\* the lengths and the counter of the object now
Observed ==
    [vectors |-> Len(index), texts |-> Len(documents),
     records |-> Len(metadata), counter |-> update_counter]

\* thread t calls an insert method, while fewer than max vectors were
\* added or are about to be
CallInsert(t, max) ==
    /\ Len(index) + PendingVectors < max + BaseVectors
    /\ \E m \in ThreadMetadataArgs :
         Enters(t, [NoFrame EXCEPT
                      !.call = IF IsPathway THEN "add_document_streaming"
                               ELSE "add_document",
                      !.text = ThreadText(t), !.metadata = m],
                IF IsPathway THEN "acquire" ELSE "index_add")
    /\ UNCHANGED <<pipelineVars, storeVars, callVars, lock>>

call_insert(t) == CallInsert(t, MaxInserts)

\* thread t calls a read-only method of PathwayVectorStore, a search with
\* one of the inputs
CallReader(t, inputs) ==
    /\ IsPathway
    /\ \E call \in PathwayReaders, in \in inputs :
         Enters(t, IF call = "search_real_time"
                   THEN [NoFrame EXCEPT !.call = call, !.text = in.text,
                                        !.k = in.k, !.threshold = in.threshold]
                   ELSE [NoFrame EXCEPT !.call = call],
                "acquire")
    /\ UNCHANGED <<pipelineVars, storeVars, callVars, lock>>

call_reader(t) == CallReader(t, ThreadSearches)

\* thread t calls search or get_stats of SupplyChainVectorStore
call_search(t) ==
    /\ IsSupplyChain
    /\ \E in \in ThreadSearches :
         Enters(t, [NoFrame EXCEPT !.call = "search", !.text = in.text,
                                   !.k = in.k, !.threshold = in.threshold],
                "index_search")
    /\ UNCHANGED <<pipelineVars, storeVars, callVars, lock>>

call_get_stats(t) ==
    /\ IsSupplyChain
    /\ Enters(t, [NoFrame EXCEPT !.call = "get_stats"], "read")
    /\ UNCHANGED <<pipelineVars, storeVars, callVars, lock>>

\* a threading.Lock, which its holder cannot acquire again
CanAcquireLock(t) == lock.owner = ""

\* self.lock = threading.RLock(): acquired when it is free or held by the
\* thread itself
CanAcquire(t) == lock.owner \in {"", t}

\* with self.lock:
acquire(t) ==
    /\ pc[t] = "acquire"
    /\ CanAcquire(t)
    /\ lock' = [owner |-> t, count |-> lock.count + 1]
    /\ frame' = [frame EXCEPT ![t].depth = @ + 1]
    /\ pc' = [pc EXCEPT ![t] = IF frame[t].call \in InsertCalls
                               THEN "index_add" ELSE "read"]
    /\ UNCHANGED <<pipelineVars, storeVars, callVars, seen>>

\* the end of a with-block: the lock is free once every block is left; the
\* outermost block ends the call
release(t) ==
    /\ pc[t] = "release"
    /\ lock' = [owner |-> IF lock.count = 1 THEN "" ELSE t,
                count |-> lock.count - 1]
    /\ IF frame[t].depth > 1
       THEN /\ frame' = [frame EXCEPT ![t].depth = @ - 1]
            /\ pc' = [pc EXCEPT ![t] = "read"]
            /\ UNCHANGED seen
       ELSE /\ pc' = [pc EXCEPT ![t] = "idle"]
            /\ frame' = [frame EXCEPT ![t] = NoFrame]
            /\ UNCHANGED seen
    /\ UNCHANGED <<pipelineVars, storeVars, callVars>>

\* a Pathway call has its answer and goes to the end of its with-block; a
\* SupplyChain call returns
Answers(t, ret_, results_, qualifying_, raised_, observed_) ==
    IF IsPathway
    THEN /\ pc' = [pc EXCEPT ![t] = "release"]
         /\ seen' = [seen EXCEPT ![t] =
                       [call |-> frame[t].call, text |-> frame[t].text,
                        metadata |-> frame[t].metadata, ret |-> ret_,
                        results |-> results_, qualifying |-> qualifying_,
                        raised |-> raised_, concurrent |-> frame[t].concurrent,
                        observed |-> observed_]]
         /\ UNCHANGED frame
    ELSE Leaves(t, ret_, results_, qualifying_, raised_, observed_)

\* embedding = encode([text]); index.add(embedding): an exception goes to
\* the except clause, which returns -1
index_add(t) ==
    /\ pc[t] = "index_add"
    /\ IF EncodeRaises(frame[t].text) \/ FaissRaises(dimension)
       THEN /\ Answers(t, -1, << >>, 0, FALSE, NoObserved)
            /\ UNCHANGED index
       ELSE /\ index' = Append(index, Encode(frame[t].text))
            /\ pc' = [pc EXCEPT ![t] = "append_document"]
            /\ UNCHANGED <<frame, seen>>
    /\ UNCHANGED <<pipelineVars, store_class, dimension, documents, metadata, update_counter,
                   last_update_time, disk, now, callVars, lock>>

\* self.documents.append(text)
append_document(t) ==
    /\ pc[t] = "append_document"
    /\ documents' = Append(documents, frame[t].text)
    /\ pc' = [pc EXCEPT ![t] = "append_metadata"]
    /\ UNCHANGED <<pipelineVars, store_class, dimension, index, metadata, update_counter,
                   last_update_time, disk, now, callVars, lock, frame, seen>>

\* self.metadata.append(...): PathwayVectorStore builds a new dict from the
\* argument, which raises on a truthy non-mapping; SupplyChainVectorStore
\* appends metadata or {}
append_metadata(t) ==
    /\ pc[t] = "append_metadata"
    /\ IF IsPathway /\ UnpackRaises(frame[t].metadata)
       THEN /\ Answers(t, -1, << >>, 0, FALSE, NoObserved)
            /\ UNCHANGED metadata
       ELSE /\ metadata' =
                 Append(metadata,
                        IF IsPathway
                        THEN StreamingMetadata(frame[t].metadata, update_counter, now)
                        ELSE IF Truthy(frame[t].metadata)
                        THEN frame[t].metadata.value ELSE EmptyDict)
            /\ pc' = [pc EXCEPT ![t] = "doc_id"]
            /\ UNCHANGED <<frame, seen>>
    /\ UNCHANGED <<pipelineVars, store_class, dimension, index, documents, update_counter,
                   last_update_time, disk, now, callVars, lock>>

\* doc_id = len(self.documents) - 1, and in PathwayVectorStore the counter
\* and the time of the update; return doc_id
doc_id(t) ==
    /\ pc[t] = "doc_id"
    /\ Answers(t, Len(documents) - 1, << >>, 0, FALSE, NoObserved)
    /\ IF IsPathway
       THEN /\ update_counter' = update_counter + 1
            /\ last_update_time' = now
       ELSE UNCHANGED <<update_counter, last_update_time>>
    /\ UNCHANGED <<pipelineVars, store_class, dimension, index, documents, metadata, disk,
                   now, callVars, lock>>

\* get_real_time_stats calls get_recent_updates, which enters the lock again
get_recent_updates_nested(t) ==
    /\ pc[t] = "read"
    /\ frame[t].call = "get_real_time_stats"
    /\ frame[t].depth = 1
    /\ frame[t].recent = -1
    /\ pc' = [pc EXCEPT ![t] = "acquire"]
    /\ UNCHANGED <<pipelineVars, storeVars, callVars, lock, frame, seen>>

\* the body of a read-only method: every field it reads, read in one step
read(t) ==
    /\ pc[t] = "read"
    /\ CASE frame[t].call = "get_real_time_stats" /\ frame[t].depth = 2 ->
              /\ frame' = [frame EXCEPT
                             ![t].recent = Len(GetRecentUpdates(Self, 60, now))]
              /\ pc' = [pc EXCEPT ![t] = "release"]
              /\ UNCHANGED seen
         [] frame[t].call = "get_real_time_stats" /\ frame[t].depth = 1 ->
              /\ frame[t].recent # -1
              /\ Answers(t, -1, << >>, 0, FALSE,
                         [vectors |-> StatsCounters(Self).index_size,
                          texts   |-> StatsCounters(Self).total_documents,
                          records |-> Len(metadata),
                          counter |-> StatsCounters(Self).update_counter])
         [] frame[t].call = "get_current_size" ->
              Answers(t, GetCurrentSize(Self), << >>, 0, FALSE, Observed)
         [] frame[t].call = "get_recent_updates" ->
              Answers(t, Len(GetRecentUpdates(Self, 30, now)), << >>, 0, FALSE,
                      Observed)
         [] frame[t].call = "search_real_time" ->
              LET out == SearchRealTime(Self, dimension, frame[t].text,
                                        frame[t].k, frame[t].threshold, now)
              IN Answers(t, -1, out.results, 0, out.raised, Observed)
         [] frame[t].call = "get_stats" ->
              Answers(t, -1, << >>, 0, TypeCountsRaises(Self), Observed)
    /\ UNCHANGED <<pipelineVars, storeVars, callVars, lock>>

\* the slots of a FAISS answer whose score passes the threshold
Qualifying(hits, threshold) ==
    Cardinality({ i \in 1..Len(hits) : hits[i].score >= threshold })

\* search: query_embedding = encode([query]); scores, indices =
\* index.search(query_embedding, k)
index_search(t) ==
    /\ pc[t] = "index_search"
    /\ IF EncodeRaises(frame[t].text) \/ FaissRaises(dimension) \/ frame[t].k <= 0
       THEN Leaves(t, -1, ExceptReturnsEmpty.results, 0,
                   ExceptReturnsEmpty.raised, Observed)
       ELSE /\ frame' = [frame EXCEPT
                           ![t].hits = FaissSearch(index, Encode(frame[t].text),
                                                   frame[t].k)]
            /\ pc' = [pc EXCEPT ![t] = "result_loop"]
            /\ UNCHANGED seen
    /\ UNCHANGED <<pipelineVars, storeVars, callVars, lock>>

\* search: the loop over the slots, and the return
result_loop(t) ==
    /\ pc[t] = "result_loop"
    /\ LET out == ResultLoop(Self, frame[t].hits, frame[t].threshold)
       IN Leaves(t, -1, out.results,
                 Qualifying(frame[t].hits, frame[t].threshold), out.raised,
                 Observed)
    /\ UNCHANGED <<pipelineVars, storeVars, callVars, lock>>

NextThread ==
    \E t \in Threads :
        \/ call_insert(t)
        \/ call_reader(t)
        \/ call_search(t)
        \/ call_get_stats(t)
        \/ acquire(t)
        \/ release(t)
        \/ index_add(t)
        \/ append_document(t)
        \/ append_metadata(t)
        \/ doc_id(t)
        \/ get_recent_updates_nested(t)
        \/ read(t)
        \/ index_search(t)
        \/ result_loop(t)

ThreadSpec == Init /\ [][NextThread]_vars

\* a statement of a call of thread t on a PathwayVectorStore, other than
\* waiting for the lock
PathwayStep(t) ==
    \/ release(t)
    \/ index_add(t)
    \/ append_document(t)
    \/ append_metadata(t)
    \/ doc_id(t)
    \/ get_recent_updates_nested(t)
    \/ read(t)

\* the calls of two threads on one PathwayVectorStore
InitLock == Init /\ IsPathway

\* the search the threads make there: the nearest document
LockSearches ==
    { in \in SearchInputs : in.text = "alert" /\ in.k = 1 /\ in.threshold = 100 }

call_pathway_reader(t) == CallReader(t, LockSearches)

call_pathway_insert(t) == CallInsert(t, MaxLockInserts)

NextLock ==
    \E t \in Threads :
        \/ call_pathway_insert(t)
        \/ call_pathway_reader(t)
        \/ acquire(t)
        \/ PathwayStep(t)

\* Every thread inside a call is scheduled, the embedding step returns, and
\* a thread that waits for the lock gets it if the lock is free again and
\* again.
LockSpec ==
    /\ InitLock
    /\ [][NextLock]_vars
    /\ \A t \in Threads : WF_vars(PathwayStep(t)) /\ SF_vars(acquire(t))

-----------------------------------------------------------------------------
(* Event records: strings, numbers and dicts *)

\* A float is an integer number of hundred-thousandths.  Every product the
\* scorers form has a factor that is a whole number of tenths, so the
\* arithmetic below is exact; the rounding of binary floats is left out.
Tenths(n) == n * 10000

Hundredths(n) == n * 1000

Thousandths(n) == n * 100

\* x * (tenths / 10)
Times(x, tenths) == (x * tenths) \div 10

Max(a, b) == IF a >= b THEN a ELSE b

\* the values of a record's fields: a str, a float, None, a list
Str(s) == [str |-> s]

Num(x) == [float |-> x]

IsStr(v) == DOMAIN v = {"str"}

IsNum(v) == DOMAIN v = {"float"}

IsList(v) == v = SomeList

\* v == "s"
PyEq(v, s) == IsStr(v) /\ v.str = s

\* record.get(key, default), for a record that is a dict
Get(record, key, default) == DictGet(record.value, key, default)

\* f"{v}"
Format(v) ==
    IF IsStr(v) THEN v.str
    ELSE IF v = PyNone THEN "None"
    ELSE "[1]"

UpperCase == "ABCDEFGHIJKLMNOPQRSTUVWXYZ"

LowerCase == "abcdefghijklmnopqrstuvwxyz"

LowerChar(c) ==
    IF \E i \in 1..Len(UpperCase) : SubSeq(UpperCase, i, i) = c
    THEN LET i == CHOOSE j \in 1..Len(UpperCase) : SubSeq(UpperCase, j, j) = c
         IN SubSeq(LowerCase, i, i)
    ELSE c

RECURSIVE LowerFrom(_, _)
LowerFrom(s, i) ==
    IF i > Len(s) THEN ""
    ELSE LowerChar(SubSeq(s, i, i)) \o LowerFrom(s, i + 1)

\* s.lower()
Lower(s) == LowerFrom(s, 1)

\* word in text
In(word, text) ==
    \E i \in 1..(Len(text) - Len(word) + 1) :
        SubSeq(text, i, i + Len(word) - 1) = word

\* any(word in text for word in words)
AnyIn(words, text) == \E i \in 1..Len(words) : In(words[i], text)

\* [word for word in words if word in text]
Matched(words, text) == SelectSeq(words, LAMBDA word : In(word, text))

\* f"{record.get('title', '')} {record.get('description', '')}".lower()
Text(record) ==
    Lower(Format(Get(record, "title", Str(""))) \o " "
          \o Format(Get(record, "description", Str(""))))

-----------------------------------------------------------------------------
(* DisruptionDetector  src/src/core/detectors/disruption_detector.py *)

supply_chain_sectors ==
    << [sector |-> "manufacturing",
        keywords |-> <<"factory", "plant", "production", "assembly", "manufacturing">>],
       [sector |-> "transportation",
        keywords |-> <<"shipping", "freight", "cargo", "transport", "logistics">>],
       [sector |-> "ports",
        keywords |-> <<"port", "harbor", "terminal", "dock", "wharf">>],
       [sector |-> "energy",
        keywords |-> <<"oil", "gas", "fuel", "energy", "power", "electricity">>],
       [sector |-> "technology",
        keywords |-> <<"semiconductor", "chip", "electronics", "tech", "computer">>],
       [sector |-> "automotive",
        keywords |-> <<"car", "auto", "vehicle", "automotive", "truck">>],
       [sector |-> "retail",
        keywords |-> <<"retail", "store", "shopping", "consumer", "goods">>],
       [sector |-> "agriculture",
        keywords |-> <<"farm", "crop", "food", "agriculture", "harvest">>] >>

trade_routes ==
    << [route |-> "trans_pacific", daily_volume |-> 50,
        locations |-> <<"pacific", "asia", "china", "japan", "korea",
                        "california", "seattle">>],
       [route |-> "trans_atlantic", daily_volume |-> 30,
        locations |-> <<"atlantic", "europe", "uk", "germany", "new york",
                        "boston">>],
       [route |-> "asia_europe", daily_volume |-> 40,
        locations |-> <<"suez", "mediterranean", "middle east", "singapore",
                        "rotterdam">>],
       [route |-> "panama_canal", daily_volume |-> 200,
        locations |-> <<"panama", "canal", "central america", "caribbean">>],
       [route |-> "suez_canal", daily_volume |-> 300,
        locations |-> <<"suez", "egypt", "red sea", "mediterranean">>] >>

disruption_keywords ==
    [critical |-> <<"shutdown", "closed", "suspended", "halted", "blocked",
                    "collapsed">>,
     warning |-> <<"delayed", "disrupted", "reduced", "limited", "restricted",
                   "strike">>,
     watch |-> <<"monitoring", "potential", "risk", "concern", "weather",
                 "planned">>]

supply_chain_terms ==
    << "supply chain", "logistics", "shipping", "freight", "cargo", "port",
       "warehouse", "manufacturing", "factory", "trade", "import", "export",
       "customs", "border", "transportation", "distribution", "procurement",
       "supplier", "vendor" >>

critical_locations ==
    << "suez canal", "panama canal", "strait of hormuz", "los angeles",
       "long beach", "shanghai", "singapore", "rotterdam", "hamburg",
       "new york" >>

\* record.get on what is not a dict raises AttributeError
IsSupplyChainRelevantRaises(record) == ~IsMapping(record)

\* _is_supply_chain_relevant(record)
IsSupplyChainRelevant(record) == AnyIn(supply_chain_terms, Text(record))

\* The statements of _calculate_disruption_score that raise: magnitude >= 6.0
\* on what is not a number, location.lower() on what is not a str, and
\* score *= confidence on what is not a number.
CalculateDisruptionScoreRaises(record) ==
    \/ ~IsMapping(record)
    \/ /\ PyEq(Get(record, "event_type", Str("")), "earthquake")
       /\ ~IsNum(Get(record, "magnitude", Num(0)))
    \/ ~IsStr(Get(record, "location", Str("")))
    \/ ~IsNum(Get(record, "confidence_score", Num(Hundredths(50))))

\* the sum of the keyword weights, in tenths
KeywordScore(text) ==
    3 * Len(Matched(disruption_keywords.critical, text))
    + 2 * Len(Matched(disruption_keywords.warning, text))
    + Len(Matched(disruption_keywords.watch, text))

\* the boost for the event type, in tenths
EventTypeBoost(record) ==
    IF PyEq(Get(record, "event_type", Str("")), "earthquake")
    THEN LET magnitude == Get(record, "magnitude", Num(0)).float
         IN IF magnitude >= Tenths(60) THEN 4
            ELSE IF magnitude >= Tenths(50) THEN 2
            ELSE 0
    ELSE IF PyEq(Get(record, "event_type", Str("")), "weather")
    THEN IF PyEq(Get(record, "severity", Str("")), "critical") THEN 3
         ELSE IF PyEq(Get(record, "severity", Str("")), "warning") THEN 2
         ELSE 0
    ELSE 0

\* the boost for a critical location, in tenths
LocationBoost(record) ==
    IF AnyIn(critical_locations, Lower(Get(record, "location", Str("")).str))
    THEN 2 ELSE 0

\* min(1.0, score)
ClampAbove(score) == Min(Tenths(10), score)

\* _calculate_disruption_score(record)
CalculateDisruptionScore(record) ==
    ClampAbove(Times(Get(record, "confidence_score", Num(Hundredths(50))).float,
                     KeywordScore(Text(record)) + EventTypeBoost(record)
                     + LocationBoost(record)))

\* _classify_disruption_type(record)
ClassifyDisruptionType(record) ==
    LET text == Text(record)
        event_type == Get(record, "event_type", Str(""))
    IN IF PyEq(event_type, "earthquake") THEN "natural_disaster"
       ELSE IF PyEq(event_type, "weather") THEN "weather_event"
       ELSE IF AnyIn(<<"strike", "labor", "union", "workers">>, text)
       THEN "labor_disruption"
       ELSE IF AnyIn(<<"cyber", "hack", "security", "breach">>, text)
       THEN "cyber_incident"
       ELSE IF AnyIn(<<"fire", "explosion", "accident", "incident">>, text)
       THEN "facility_incident"
       ELSE IF AnyIn(<<"border", "customs", "tariff", "trade war">>, text)
       THEN "trade_policy"
       ELSE IF AnyIn(<<"shortage", "supply", "material", "component">>, text)
       THEN "supply_shortage"
       ELSE IF AnyIn(<<"transport", "shipping", "freight", "logistics">>, text)
       THEN "transportation_disruption"
       ELSE "general_disruption"

RECURSIVE SectorsFrom(_, _)
SectorsFrom(text, i) ==
    IF i > Len(supply_chain_sectors) THEN << >>
    ELSE (IF AnyIn(supply_chain_sectors[i].keywords, text)
          THEN << supply_chain_sectors[i].sector >> ELSE << >>)
         \o SectorsFrom(text, i + 1)

\* _identify_affected_sectors(record)
IdentifyAffectedSectors(record) ==
    LET affected_sectors == SectorsFrom(Text(record), 1)
    IN IF affected_sectors # << >> THEN affected_sectors ELSE << "general" >>

\* the routes with a keyword in the location, in the order of the dict
RoutesAt(location) ==
    SelectSeq(trade_routes, LAMBDA r : AnyIn(r.locations, location))

\* _determine_geographic_scope(record)
DetermineGeographicScope(record) ==
    LET location == Lower(Get(record, "location", Str("")).str)
    IN IF RoutesAt(location) # << >>
       THEN "trade_route_" \o RoutesAt(location)[1].route
       ELSE IF AnyIn(<<"asia", "pacific", "china", "japan">>, location)
       THEN "asia_pacific"
       ELSE IF AnyIn(<<"europe", "eu", "uk", "germany">>, location)
       THEN "europe"
       ELSE IF AnyIn(<<"america", "usa", "canada", "mexico">>, location)
       THEN "north_america"
       ELSE IF AnyIn(<<"middle east", "gulf", "arabia">>, location)
       THEN "middle_east"
       ELSE "regional"

\* _assess_urgency(record, disruption_score)
AssessUrgency(record, disruption_score) ==
    LET severity == Get(record, "severity", Str("watch"))
    IN IF disruption_score >= Tenths(8) \/ PyEq(severity, "critical")
       THEN "immediate"
       ELSE IF disruption_score >= Tenths(6) \/ PyEq(severity, "warning")
       THEN "high"
       ELSE IF disruption_score >= Tenths(4) \/ PyEq(severity, "watch")
       THEN "medium"
       ELSE "low"

\* _extract_matched_keywords(record)
ExtractMatchedKeywords(record) ==
    Matched(disruption_keywords.critical \o disruption_keywords.warning
            \o disruption_keywords.watch, Text(record))

\* a detector without the threshold
IsPotentialDisruptionAlways(disruption_score) == TRUE

\* if disruption_score >= 0.3
IsPotentialDisruption(disruption_score) == disruption_score >= Tenths(3)

\* The dict detect_disruptions appends for a record.  Its id and detected_at
\* are read from the clock and are left out.
Disruption(record, disruption_score) ==
    [source_data |-> record,
     disruption_score |-> disruption_score,
     disruption_type |-> ClassifyDisruptionType(record),
     affected_sectors |-> IdentifyAffectedSectors(record),
     geographic_scope |-> DetermineGeographicScope(record),
     urgency_level |-> AssessUrgency(record, disruption_score),
     keywords_matched |-> ExtractMatchedKeywords(record)]

\* One turn of the loop of detect_disruptions: what it appends for a record.
\* An exception raised for the record is caught and logged.
DetectRecord(record) ==
    IF IsSupplyChainRelevantRaises(record) THEN << >>
    ELSE IF ~IsSupplyChainRelevant(record) THEN << >>
    ELSE IF CalculateDisruptionScoreRaises(record) THEN << >>
    ELSE IF IsPotentialDisruption(CalculateDisruptionScore(record))
    THEN << Disruption(record, CalculateDisruptionScore(record)) >>
    ELSE << >>

-----------------------------------------------------------------------------
(* The records of the model *)

\* records a batch may hold
MaxBatch == 2

\* Scenario B of the specification
EarthquakeJapan ==
    Dict([title |-> Str("Magnitude 6.8 Earthquake Strikes Japan"),
          event_type |-> Str("earthquake"),
          magnitude |-> Num(Tenths(68)),
          location |-> Str("Tokyo, Japan"),
          severity |-> Str("critical"),
          confidence_score |-> Num(Hundredths(95))])

\* Scenario D of the specification
LocalBakery ==
    Dict([title |-> Str("Local bakery wins award"),
          description |-> Str("Small business recognition")])

\* the relevant record of test_supply_chain_relevance_detection
PortDelays ==
    Dict([title |-> Str("Port of Los Angeles experiences shipping delays"),
          description |-> Str("Supply chain disruption at major port facility")])

\* the high-impact record of test_disruption_score_calculation
PortShutdown ==
    Dict([title |-> Str("Major port shutdown due to earthquake"),
          description |->
              Str("Critical supply chain disruption at Los Angeles port"),
          event_type |-> Str("earthquake"),
          magnitude |-> Num(Tenths(65)),
          severity |-> Str("critical"),
          location |-> Str("Los Angeles Port"),
          confidence_score |-> Num(Hundredths(90))])

\* a record whose source reports a confidence below zero
PortClosed ==
    Dict([title |-> Str("Port closed, shipping halted"),
          confidence_score |-> Num(0 - Hundredths(50))])

\* a record whose weights add up to more than one
SuezBlocked ==
    Dict([title |-> Str("Suez port shutdown: cargo blocked, freight halted"),
          location |-> Str("Suez Canal"),
          confidence_score |-> Num(Hundredths(100))])

\* a record whose location is None
StrikeNowhere ==
    Dict([title |-> Str("Port strike halted cargo"),
          location |-> PyNone,
          confidence_score |-> Num(Hundredths(100))])

\* a record whose severity is a list
StrikeListed ==
    Dict([title |-> Str("Port strike halted cargo"),
          severity |-> SomeList,
          confidence_score |-> Num(Hundredths(100))])

\* the records of the model by name: the eight above and None, which is no
\* dict
Named ==
    [EarthquakeJapan |-> EarthquakeJapan, LocalBakery |-> LocalBakery,
     PortDelays |-> PortDelays, PortShutdown |-> PortShutdown,
     PortClosed |-> PortClosed, SuezBlocked |-> SuezBlocked,
     StrikeNowhere |-> StrikeNowhere, StrikeListed |-> StrikeListed,
     None |-> PyNone]

\* A batch holds its records by name.
Records == DOMAIN Named

\* the batches of the model
Batches == UNION { [1..n -> Records] : n \in 0..MaxBatch }

-----------------------------------------------------------------------------
(* SupplyChainPipeline  src/src/core/pipeline/supply_chain_pipeline.py *)

\* rows the database may hold
MaxRows == 2

\* float(x) raises on None and on a list
FloatRaises(v) == ~IsNum(v)

\* _format_for_pathway(data) raises on what is not a dict and on a
\* latitude, longitude or magnitude that float() does not take
FormatForPathwayRaises(data) ==
    \/ ~IsMapping(data)
    \/ FloatRaises(Get(data, "latitude", Num(0)))
    \/ FloatRaises(Get(data, "longitude", Num(0)))
    \/ FloatRaises(Get(data, "magnitude", Num(0)))

\* _format_for_pathway(data): every key is there, with its default.  The
\* timestamp is read from the clock and is left out.
FormatForPathway(data) ==
    Dict([source |-> Get(data, "source", Str("unknown")),
          event_type |-> Get(data, "event_type", Str("unknown")),
          title |-> Get(data, "title", Str("")),
          description |-> Get(data, "description", Str("")),
          severity |-> Get(data, "severity", Str("watch")),
          location |-> Get(data, "location", Str("")),
          confidence_score |-> Get(data, "confidence_score", Num(Hundredths(50))),
          latitude |-> Get(data, "latitude", Num(0)),
          longitude |-> Get(data, "longitude", Num(0)),
          magnitude |-> Get(data, "magnitude", Num(0)),
          url |-> Get(data, "url", Str(""))])


\* the records of the model as _format_for_pathway leaves them
Formatted ==
    [name \in { n \in Records : ~FormatForPathwayRaises(Named[n]) } |->
        FormatForPathway(Named[name])]

\* what the detector makes of each record of the model, worked out once
Detection == [name \in Records |-> DetectRecord(Named[name])]

\* the loop of detect_disruptions without its try: the exception a record
\* raises leaves the loop
RECURSIVE DetectDisruptionsFromUncaught(_, _)
DetectDisruptionsFromUncaught(data_batch, i) ==
    IF i > Len(data_batch) THEN << >>
    ELSE IF IsSupplyChainRelevantRaises(Named[data_batch[i]]) THEN << >>
    ELSE Detection[data_batch[i]]
         \o DetectDisruptionsFromUncaught(data_batch, i + 1)

\* for record in data_batch: ... disruptions.append(disruption)
RECURSIVE DetectDisruptionsFrom(_, _)
DetectDisruptionsFrom(data_batch, i) ==
    IF i > Len(data_batch) THEN << >>
    ELSE Detection[data_batch[i]] \o DetectDisruptionsFrom(data_batch, i + 1)

\* detect_disruptions(data_batch)
DetectDisruptions(data_batch) == DetectDisruptionsFrom(data_batch, 1)

-----------------------------------------------------------------------------
(* ImpactAssessor  src/src/core/processors/impact_assessor.py *)

\* The statements of assess_impact that raise for a dict the detector made:
\* duration_map.get(disruption_type, {}).get(severity, 3) on a severity that
\* cannot be hashed, and location.lower() on what is not a str.
AssessImpactRaises(disruption) ==
    \/ IsList(Get(disruption.source_data, "severity", Str("watch")))
    \/ ~IsStr(Get(disruption.source_data, "location", Str("")))

\* the factor for the geographic scope, in tenths
ScopeFactor(geographic_scope) ==
    IF In("trade_route", geographic_scope) THEN 13
    ELSE IF geographic_scope \in {"asia_pacific", "europe", "north_america"}
    THEN 11
    ELSE 10

\* urgency_multipliers.get(urgency, 1.0), in tenths
UrgencyFactor(urgency) ==
    IF urgency = "immediate" THEN 13
    ELSE IF urgency = "high" THEN 12
    ELSE IF urgency = "low" THEN 8
    ELSE 10

\* _calculate_impact_score without min(1.0, base_score)
CalculateImpactScoreUnclamped(disruption) ==
    Times(Times(disruption.disruption_score,
                ScopeFactor(disruption.geographic_scope)),
          UrgencyFactor(disruption.urgency_level))

\* _calculate_impact_score(disruption)
CalculateImpactScore(disruption) ==
    ClampAbove(Times(Times(disruption.disruption_score,
                           ScopeFactor(disruption.geographic_scope)),
                     UrgencyFactor(disruption.urgency_level)))

\* round(x, 3); a tie goes up
Round3(x) == ((x + 50) \div 100) * 100

duration_map ==
    [earthquake |-> [critical |-> 14, warning |-> 5, watch |-> 2],
     weather |-> [critical |-> 7, warning |-> 3, watch |-> 1],
     labor_disruption |-> [critical |-> 21, warning |-> 7, watch |-> 2],
     transportation_disruption |-> [critical |-> 10, warning |-> 3, watch |-> 1]]

\* _estimate_duration(disruption)
EstimateDuration(disruption) ==
    LET disruption_type == disruption.disruption_type
        severity == Get(disruption.source_data, "severity", Str("watch"))
    IN [estimated_avg_days |->
            IF /\ disruption_type \in DOMAIN duration_map
               /\ IsStr(severity)
               /\ severity.str \in DOMAIN duration_map[disruption_type]
            THEN duration_map[disruption_type][severity.str]
            ELSE 3,
        confidence |-> IF disruption_type \in DOMAIN duration_map
                       THEN Tenths(7) ELSE Tenths(4)]

RECURSIVE RouteNames(_, _)
RouteNames(routes, i) ==
    IF i > Len(routes) THEN << >>
    ELSE << routes[i].route >> \o RouteNames(routes, i + 1)

\* _identify_affected_routes(disruption)
IdentifyAffectedRoutes(disruption) ==
    RouteNames(RoutesAt(Lower(Get(disruption.source_data, "location",
                                  Str("")).str)), 1)

\* _generate_mitigation_strategies(disruption, impact_score)
GenerateMitigationStrategies(disruption, impact_score) ==
    (IF impact_score >= Tenths(7)
     THEN << "Activate emergency procurement protocols",
             "Contact backup suppliers immediately",
             "Consider expedited shipping for critical items",
             "Increase safety stock levels for affected routes" >>
     ELSE << >>)
    \o (IF disruption.disruption_type = "weather_event"
        THEN << "Monitor weather forecasts for route planning",
                "Consider alternative transportation modes",
                "Coordinate with logistics partners for rerouting" >>
        ELSE IF disruption.disruption_type = "natural_disaster"
        THEN << "Assess supplier facility damage",
                "Activate disaster recovery plans",
                "Consider temporary supplier alternatives" >>
        ELSE IF disruption.disruption_type = "transportation_disruption"
        THEN << "Explore alternative routes and carriers",
                "Negotiate priority handling with logistics providers",
                "Consider multimodal transportation options" >>
        ELSE << >>)

\* _determine_severity_level(impact_score)
DetermineSeverityLevel(impact_score) ==
    IF impact_score >= Tenths(8) THEN "critical"
    ELSE IF impact_score >= Tenths(6) THEN "high"
    ELSE IF impact_score >= Tenths(4) THEN "medium"
    ELSE "low"

\* assess_impact(disruption) for a dict the detector made.  The except
\* clause answers a dict that has an error and no impact_score.  The
\* financial estimate and the clock reading assessed_at are left out.
AssessImpact(disruption) ==
    IF AssessImpactRaises(disruption)
    THEN [error |-> TRUE, impact_score |-> 0, severity_level |-> "",
          duration_estimate |-> [estimated_avg_days |-> 0, confidence |-> 0],
          affected_routes |-> << >>, mitigation_strategies |-> << >>]
    ELSE [error |-> FALSE,
          impact_score |-> Round3(CalculateImpactScore(disruption)),
          severity_level |->
              DetermineSeverityLevel(CalculateImpactScore(disruption)),
          duration_estimate |-> EstimateDuration(disruption),
          affected_routes |-> IdentifyAffectedRoutes(disruption),
          mitigation_strategies |->
              GenerateMitigationStrategies(disruption,
                                           CalculateImpactScore(disruption))]

\* impact_assessment.get("impact_score", 0)
ImpactScoreOf(impact_assessment) ==
    IF impact_assessment.error THEN 0 ELSE impact_assessment.impact_score

-----------------------------------------------------------------------------
(* SupplyChainPipeline.process_batch *)

\* One source of collect_data_batch: the alerts are formatted and appended
\* one by one; an exception ends the source and keeps what was appended.
\* The batch holds the formatted alerts by the names of the alerts.
RECURSIVE CollectFrom(_, _)
CollectFrom(alerts, i) ==
    IF i > Len(alerts) THEN << >>
    ELSE IF FormatForPathwayRaises(Named[alerts[i]]) THEN << >>
    ELSE << alerts[i] >> \o CollectFrom(alerts, i + 1)

\* collect_data_batch(), given what the services answer.  Which services
\* are asked is decided by last_refresh; a service that is not asked is one
\* that answers no alert.
CollectDataBatch(weather_alerts, news_articles, earthquake_alerts) ==
    CollectFrom(weather_alerts, 1) \o CollectFrom(news_articles, 1)
    \o CollectFrom(earthquake_alerts, 1)

\* the sources collect_data_batch asks, in its order
Sources == << "weather", "news", "earthquake" >>

\* settings.weather_refresh_interval, news_refresh_interval and
\* earthquake_refresh_interval (300, 600 and 180 seconds), in minutes
refresh_intervals == [weather |-> 5, news |-> 10, earthquake |-> 3]

\* _should_refresh(source) at time t
ShouldRefresh(last, source, t) ==
    \/ source \notin DOMAIN last
    \/ t - last[source] >= refresh_intervals[source]

\* the sources collect_data_batch asks at time t
Due(last, t) ==
    { Sources[n] : n \in { m \in 1..Len(Sources) : ShouldRefresh(last, Sources[m], t) } }

\* self.last_refresh[source] = datetime.utcnow(), for each source whose
\* try block came to that line
Refreshed(last, fetched, t) ==
    [ source \in DOMAIN last \cup fetched |->
        IF source \in fetched THEN t ELSE last[source] ]

\* datetime.isoformat(): the text of a time
Isoformat(t) == [isoformat |-> t]

\* get_status(): next_refresh adds settings.weather_refresh_interval for
\* whatever source
GetStatus(running, last) ==
    [is_running |-> running,
     last_refresh |-> [ source \in DOMAIN last |-> Isoformat(last[source]) ],
     next_refresh |-> [ source \in DOMAIN last |->
                          Isoformat(last[source] + refresh_intervals.weather) ]]

\* _detect_disruptions(row): the first disruption of a batch of one, or None
\* (here the empty tuple)
DetectRow(row) == DetectRecord(row)

\* settings.alert_threshold
IsSignificant(impact_assessment) == ImpactScoreOf(impact_assessment) >= Tenths(5)

\* what process_batch appends for a data item
ProcessItem(data_item) ==
    IF DetectRow(data_item) = << >> THEN << >>
    ELSE IF IsSignificant(AssessImpact(DetectRow(data_item)[1]))
    THEN << [disruption_data |-> DetectRow(data_item)[1],
             impact_assessment |-> AssessImpact(DetectRow(data_item)[1])] >>
    ELSE << >>

\* what ProcessItem makes of each formatted record of the model, worked out
\* once
Processing == [name \in DOMAIN Formatted |-> ProcessItem(Formatted[name])]

\* for data_item in data_batch: ... processed_disruptions.append(combined_data)
RECURSIVE ProcessFrom(_, _)
ProcessFrom(data_batch, i) ==
    IF i > Len(data_batch) THEN << >>
    ELSE Processing[data_batch[i]] \o ProcessFrom(data_batch, i + 1)

\* the row _store_disruption commits for a significant disruption
Row(combined_data) ==
    [title |-> Get(combined_data.disruption_data.source_data, "title", Str("")),
     severity |-> combined_data.impact_assessment.severity_level,
     impact_score |-> combined_data.impact_assessment.impact_score]

\* the rows of a run that the database commits, in the order of the run
RECURSIVE Rows(_, _, _)
Rows(processed_disruptions, committed, i) ==
    IF i > Len(processed_disruptions) THEN << >>
    ELSE (IF i \in committed THEN << Row(processed_disruptions[i]) >>
          ELSE << >>)
         \o Rows(processed_disruptions, committed, i + 1)

-----------------------------------------------------------------------------
(* AIDisruptionDetector  src/src/core/detectors/ai_disruption_detector.py *)

\* a JSON list of strings
List(seq) == [list |-> seq]

UpperChar(c) ==
    IF \E i \in 1..Len(LowerCase) : SubSeq(LowerCase, i, i) = c
    THEN LET i == CHOOSE j \in 1..Len(LowerCase) : SubSeq(LowerCase, j, j) = c
         IN SubSeq(UpperCase, i, i)
    ELSE c

RECURSIVE UpperFrom(_, _)
UpperFrom(s, i) ==
    IF i > Len(s) THEN ""
    ELSE UpperChar(SubSeq(s, i, i)) \o UpperFrom(s, i + 1)

\* s.upper()
Upper(s) == UpperFrom(s, 1)

\* supply_chain_knowledge["critical_routes"]; impact_multiplier in tenths
critical_routes ==
    << [route |-> "trans_pacific", impact_multiplier |-> 25,
        key_ports |-> <<"Shanghai", "Shenzhen", "Los Angeles", "Long Beach",
                        "Seattle">>],
       [route |-> "asia_europe", impact_multiplier |-> 20,
        key_ports |-> <<"Shanghai", "Singapore", "Dubai", "Rotterdam",
                        "Hamburg">>],
       [route |-> "intra_asia", impact_multiplier |-> 15,
        key_ports |-> <<"Singapore", "Hong Kong", "Busan", "Tokyo", "Manila">>] >>

\* supply_chain_knowledge["sector_vulnerabilities"]; dependency_score in
\* hundredths
sector_vulnerabilities ==
    << [sector |-> "electronics", dependency_score |-> 90,
        key_regions |-> <<"Taiwan", "South Korea", "China", "Japan">>],
       [sector |-> "automotive", dependency_score |-> 80,
        key_regions |-> <<"Germany", "Japan", "Mexico", "China">>],
       [sector |-> "pharmaceuticals", dependency_score |-> 95,
        key_regions |-> <<"India", "China", "Ireland", "Puerto Rico">>],
       [sector |-> "agriculture", dependency_score |-> 70,
        key_regions |-> <<"Ukraine", "Brazil", "Argentina", "Australia">>] >>

\* supply_chain_keywords, category after category
supply_chain_keywords ==
    << "supply chain", "logistics", "shipping", "transport", "cargo", "freight",
       "port", "airport", "highway", "rail", "truck", "vessel", "container",
       "warehouse", "distribution", "manufacturing", "production", "assembly",
       "delay", "disruption", "shortage", "bottleneck", "congestion", "closure",
       "strike", "accident", "weather", "storm", "flood", "earthquake", "fire",
       "sanctions", "trade war", "border", "customs", "tariff", "embargo" >>

\* self.critical_locations of the AI detector: name and importance
location_importance ==
    << [name |-> "shanghai", importance |-> 10],
       [name |-> "singapore", importance |-> 9],
       [name |-> "rotterdam", importance |-> 8],
       [name |-> "los_angeles", importance |-> 8],
       [name |-> "shenzhen", importance |-> 7],
       [name |-> "hamburg", importance |-> 7],
       [name |-> "dubai", importance |-> 6],
       [name |-> "hong_kong", importance |-> 6],
       [name |-> "suez_canal", importance |-> 10],
       [name |-> "panama_canal", importance |-> 9] >>

\* the keyword test of _is_supply_chain_relevant_ai
BasicRelevance(record) == AnyIn(supply_chain_keywords, Text(record))

\* "RELEVANT" in response.upper()
SaysRelevant(response) == In("RELEVANT", Upper(response))

\* any(name.lower() in location for name in names)
AnyLowerIn(names, location) ==
    \E i \in 1..Len(names) : In(Lower(names[i]), location)

EmptyContext ==
    [relevant_routes |-> << >>, affected_sectors |-> << >>,
     location_importance |-> 0]

\* _retrieve_relevant_context(record, embedding).  location.lower() raises
\* on what is not a str, and the except clause returns the context as it
\* is then.  historical_patterns is read by no one and is left out.
RetrieveRelevantContext(record) ==
    IF ~IsStr(Get(record, "location", Str(""))) THEN EmptyContext
    ELSE LET location == Lower(Get(record, "location", Str("")).str)
             found == SelectSeq(location_importance,
                                LAMBDA loc : In(loc.name, location))
         IN [relevant_routes |->
                 SelectSeq(critical_routes,
                           LAMBDA r : AnyLowerIn(r.key_ports, location)),
             affected_sectors |->
                 SelectSeq(sector_vulnerabilities,
                           LAMBDA s : AnyLowerIn(s.key_regions, location)),
             location_importance |->
                 IF found # << >> THEN found[1].importance ELSE 0]

default_analysis ==
    Dict([disruption_type |-> Str("general_disruption"),
          affected_sectors |-> List(<< "general" >>),
          geographic_scope |-> Str("regional"),
          urgency_level |-> Str("medium"),
          confidence_level |-> Num(Hundredths(50)),
          predicted_duration_days |-> Num(Tenths(70)),
          mitigation_suggestions |-> List(<< "Monitor situation closely" >>)])

\* What the model may answer to the relevance prompt; _call_openai answers
\* "" for a call that failed.
RelevanceResponses == { "RELEVANT", "NOT_RELEVANT", "" }

AnalysisComplete ==
    "{\"disruption_type\": \"natural_disaster\", \"affected_sectors\": [\"electronics\"], \"geographic_scope\": \"international\", \"urgency_level\": \"critical\", \"confidence_level\": 0.9, \"impact_severity\": \"severe\"}"

AnalysisUnknownValues ==
    "{\"disruption_type\": \"banana\", \"geographic_scope\": \"mars\", \"urgency_level\": \"soon\", \"confidence_level\": 0.9}"

AnalysisNegative ==
    "{\"confidence_level\": -2.0, \"impact_severity\": \"minor\", \"geographic_scope\": \"local\"}"

AnalysisNullSectors ==
    "{\"disruption_type\": \"labor\", \"affected_sectors\": null, \"confidence_level\": 0.9}"

\* What the model may answer to the analysis prompt: nothing (or a failed
\* call), prose, JSON that is no object, a complete analysis, and objects
\* with values the prompt does not list.
AnalysisResponses ==
    { "", "I think it is bad", "[]", AnalysisComplete, AnalysisUnknownValues,
      AnalysisNegative, AnalysisNullSectors }

\* json.loads(response) raises JSONDecodeError
ResponseLoadsRaises(response) == response \in { "", "I think it is bad" }

\* json.loads(response), for the answers of the model
ResponseLoads(response) ==
    CASE response = "[]" -> List(<< >>)
      [] response = AnalysisComplete ->
            Dict([disruption_type |-> Str("natural_disaster"),
                  affected_sectors |-> List(<< "electronics" >>),
                  geographic_scope |-> Str("international"),
                  urgency_level |-> Str("critical"),
                  confidence_level |-> Num(Hundredths(90)),
                  impact_severity |-> Str("severe")])
      [] response = AnalysisUnknownValues ->
            Dict([disruption_type |-> Str("banana"),
                  geographic_scope |-> Str("mars"),
                  urgency_level |-> Str("soon"),
                  confidence_level |-> Num(Hundredths(90))])
      [] response = AnalysisNegative ->
            Dict([confidence_level |-> Num(0 - Tenths(20)),
                  impact_severity |-> Str("minor"),
                  geographic_scope |-> Str("local")])
      [] response = AnalysisNullSectors ->
            Dict([disruption_type |-> Str("labor"),
                  affected_sectors |-> PyNone,
                  confidence_level |-> Num(Hundredths(90))])

\* _analyze_with_ai(record, context), given what _call_openai answers
AnalyzeWithAI(client, response) ==
    IF ~client THEN default_analysis
    ELSE IF ResponseLoadsRaises(response) THEN default_analysis
    ELSE ResponseLoads(response)

\* severity_multipliers.get(severity, 0.5), in tenths
SeverityMultiplier(severity) ==
    IF PyEq(severity, "minor") THEN 2
    ELSE IF PyEq(severity, "major") THEN 8
    ELSE IF PyEq(severity, "severe") THEN 10
    ELSE 5

\* scope_multipliers.get(scope, 0.4), in tenths
ScopeMultiplier(scope) ==
    IF PyEq(scope, "local") THEN 2
    ELSE IF PyEq(scope, "national") THEN 6
    ELSE IF PyEq(scope, "international") THEN 8
    ELSE IF PyEq(scope, "global") THEN 10
    ELSE 4

\* max([...]) of a non-empty list of numbers
MaxOf(numbers) ==
    CHOOSE x \in { numbers[i] : i \in 1..Len(numbers) } :
        \A i \in 1..Len(numbers) : numbers[i] <= x

\* The statements of _calculate_ai_disruption_score that raise: .get on an
\* analysis that is no dict, and confidence_level * 0.3 on what is not a
\* number.
CalculateAIDisruptionScoreRaises(ai_analysis) ==
    \/ DOMAIN ai_analysis # {"kind", "value"}
    \/ ~IsMapping(ai_analysis)
    \/ ~IsNum(Get(ai_analysis, "confidence_level", Num(Hundredths(50))))

\* _calculate_ai_disruption_score(record, ai_analysis, context)
CalculateAIDisruptionScore(ai_analysis, context) ==
    ClampAbove(
        Times(Get(ai_analysis, "confidence_level", Num(Hundredths(50))).float, 3)
        + Hundredths(3 * SeverityMultiplier(
                             Get(ai_analysis, "impact_severity", Str("moderate"))))
        + Hundredths(2 * ScopeMultiplier(
                             Get(ai_analysis, "geographic_scope", Str("regional"))))
        + (IF context.location_importance > 7 THEN Tenths(2)
           ELSE IF context.location_importance > 5 THEN Tenths(1)
           ELSE 0)
        + (IF context.relevant_routes # << >>
           THEN Hundredths(MaxOf([i \in 1..Len(context.relevant_routes) |->
                                     context.relevant_routes[i].impact_multiplier])
                           - 10)
           ELSE 0)
        + (IF context.affected_sectors # << >>
           THEN 100 * MaxOf([i \in 1..Len(context.affected_sectors) |->
                                context.affected_sectors[i].dependency_score])
           ELSE 0))

\* The dict detect_disruptions_ai appends for a record.  Its id, detected_at
\* and embedding are left out, and so are the duration and the mitigation
\* suggestions it copies from the analysis.
AIDisruption(record, ai_analysis, context, disruption_score) ==
    [source_data |-> record,
     disruption_score |-> disruption_score,
     ai_analysis |-> ai_analysis,
     context_used |-> context,
     disruption_type |-> Get(ai_analysis, "disruption_type", Str("unknown")),
     affected_sectors |-> Get(ai_analysis, "affected_sectors", List(<< >>)),
     geographic_scope |-> Get(ai_analysis, "geographic_scope", Str("regional")),
     urgency_level |-> Get(ai_analysis, "urgency_level", Str("medium")),
     confidence_level |->
         Get(ai_analysis, "confidence_level", Num(Hundredths(50))),
     predicted_duration_days |->
         Get(ai_analysis, "predicted_duration_days", Num(Tenths(70))),
     mitigation_suggestions |->
         Get(ai_analysis, "mitigation_suggestions", List(<< >>))]

\* the keyword test and the context of each record of the model, worked out
\* once
Screening ==
    [name \in Records |->
        [raises |-> ~IsMapping(Named[name]),
         basic_relevance |-> IF IsMapping(Named[name])
                             THEN BasicRelevance(Named[name])
                             ELSE FALSE,
         context |-> IF IsMapping(Named[name])
                     THEN RetrieveRelevantContext(Named[name])
                     ELSE EmptyContext]]

\* steps 2 to 5 of the loop of detect_disruptions_ai for a record that
\* passed the gate: what it appends, given the analysis
ScoreRecordAI(record, ai_analysis) ==
    IF CalculateAIDisruptionScoreRaises(ai_analysis) THEN << >>
    ELSE IF CalculateAIDisruptionScore(ai_analysis, Screening[record].context)
              >= Tenths(3)
    THEN << AIDisruption(Named[record], ai_analysis, Screening[record].context,
                         CalculateAIDisruptionScore(ai_analysis,
                                                    Screening[record].context)) >>
    ELSE << >>

\* _is_supply_chain_relevant_ai(record), given what _call_openai answers,
\* for a record that is a dict
IsSupplyChainRelevantAI(record, client, response) ==
    /\ Screening[record].basic_relevance
    /\ client => SaysRelevant(response)

\* a loop that keeps a disruption from settings.alert_threshold (0.5) on
DetectRecordAIAlertThreshold(record, client, relevance, analysis) ==
    IF Screening[record].raises THEN << >>
    ELSE IF ~IsSupplyChainRelevantAI(record, client, relevance) THEN << >>
    ELSE SelectSeq(ScoreRecordAI(record, AnalyzeWithAI(client, analysis)),
                   LAMBDA disruption : disruption.disruption_score >= Tenths(5))

\* One turn of the loop of detect_disruptions_ai: what it appends for a
\* record, given what the model answers to its two prompts.  An exception
\* raised for the record is caught and logged.
DetectRecordAI(record, client, relevance, analysis) ==
    IF Screening[record].raises THEN << >>
    ELSE IF ~IsSupplyChainRelevantAI(record, client, relevance) THEN << >>
    ELSE ScoreRecordAI(record, AnalyzeWithAI(client, analysis))

\* what the detector makes of each record of the model for each pair of
\* answers, worked out once
AIDetection ==
    [name \in Records |->
        [client \in BOOLEAN |->
            [relevance \in RelevanceResponses |->
                [analysis \in AnalysisResponses |->
                    DetectRecordAI(name, client, relevance, analysis)]]]]

\* for record in data_batch: ... disruptions.append(disruption)
RECURSIVE DetectDisruptionsAIFrom(_, _, _, _, _)
DetectDisruptionsAIFrom(data_batch, client, relevance, analysis, i) ==
    IF i > Len(data_batch) THEN << >>
    ELSE AIDetection[data_batch[i]][client][relevance[i]][analysis[i]]
         \o DetectDisruptionsAIFrom(data_batch, client, relevance, analysis, i + 1)

\* detect_disruptions_ai(data_batch), given the answers of the model to the
\* prompts of each record
DetectDisruptionsAI(data_batch, client, relevance, analysis) ==
    DetectDisruptionsAIFrom(data_batch, client, relevance, analysis, 1)

-----------------------------------------------------------------------------
(* Calls of the detectors, of the assessor and of the batch pipeline on the
   records at hand *)

\* the gate and the score of a record
ScoringOf(record) ==
    [gate_raises |-> IsSupplyChainRelevantRaises(record),
     relevant |-> IF IsSupplyChainRelevantRaises(record) THEN FALSE
                  ELSE IsSupplyChainRelevant(record),
     score_raises |-> CalculateDisruptionScoreRaises(record),
     score |-> IF CalculateDisruptionScoreRaises(record) THEN 0
               ELSE CalculateDisruptionScore(record)]

\* the gate and the score of each record of the model, worked out once
Scoring == [name \in Records |-> ScoringOf(Named[name])]

\* the same of each record as _format_for_pathway leaves it
FormattedScoring == [name \in DOMAIN Formatted |-> ScoringOf(Formatted[name])]

\* a caller holds a batch of records
InitDetect ==
    /\ Constructed
    /\ IsSupplyChain
    /\ dimension = EmbeddingDimension
    /\ events \in Batches
    /\ task = NoTask

\* the scorers and the assessor are called on a single record at hand
calculate_disruption_score ==
    /\ Len(events) = 1
    /\ op' = "_calculate_disruption_score"
    /\ args' = [record |-> events[1]]
    /\ raised' = Scoring[events[1]].score_raises
    /\ ret' = Scoring[events[1]].score
    /\ results' = << >>
    /\ stats' = NoStats
    /\ UNCHANGED <<pipelineVars, storeVars, issued, threadVars>>

\* the model-assisted scorer, on what _analyze_with_ai makes of an answer of
\* the model
calculate_ai_disruption_score ==
    /\ Len(events) = 1
    /\ ~Screening[events[1]].raises
    /\ \E client \in BOOLEAN, response \in AnalysisResponses :
         /\ ~client => response = ""
         /\ args' = [record |-> events[1], client |-> client,
                     response |-> response,
                     ai_analysis |-> AnalyzeWithAI(client, response)]
         /\ raised' = CalculateAIDisruptionScoreRaises(
                          AnalyzeWithAI(client, response))
         /\ ret' = IF CalculateAIDisruptionScoreRaises(
                          AnalyzeWithAI(client, response))
                   THEN 0
                   ELSE CalculateAIDisruptionScore(
                            AnalyzeWithAI(client, response),
                            Screening[events[1]].context)
    /\ op' = "_calculate_ai_disruption_score"
    /\ results' = << >>
    /\ stats' = NoStats
    /\ UNCHANGED <<pipelineVars, storeVars, issued, threadVars>>

\* the assessor is given the disruption the detector made of the record
calculate_impact_score ==
    /\ Len(events) = 1
    /\ DetectDisruptions(events) # << >>
    /\ op' = "_calculate_impact_score"
    /\ args' = [disruption |-> DetectDisruptions(events)[1]]
    /\ ret' = CalculateImpactScore(DetectDisruptions(events)[1])
    /\ raised' = FALSE
    /\ results' = << >>
    /\ stats' = NoStats
    /\ UNCHANGED <<pipelineVars, storeVars, issued, threadVars>>

assess_impact ==
    /\ Len(events) = 1
    /\ DetectDisruptions(events) # << >>
    /\ op' = "assess_impact"
    /\ args' = [disruption |-> DetectDisruptions(events)[1]]
    /\ results' = << AssessImpact(DetectDisruptions(events)[1]) >>
    /\ raised' = FALSE
    /\ ret' = -1
    /\ stats' = NoStats
    /\ UNCHANGED <<pipelineVars, storeVars, issued, threadVars>>

detect_disruptions ==
    /\ op' = "detect_disruptions"
    /\ args' = NoArgs
    /\ results' = DetectDisruptions(events)
    /\ raised' = FALSE
    /\ ret' = -1
    /\ stats' = NoStats
    /\ UNCHANGED <<pipelineVars, storeVars, issued, threadVars>>

\* the answers of the model to the analysis prompts of a batch: a complete
\* analysis or a JSON list
BatchAnalyses == { AnalysisComplete, "[]" }

\* detect_disruptions_ai(data_batch) from its call to its return.  Without
\* a client the model is not asked; with one it finds every record relevant
\* and answers the analysis prompt of each in one of two ways.
detect_disruptions_ai ==
    /\ \E client \in BOOLEAN :
         \E analysis \in IF client THEN [1..Len(events) -> BatchAnalyses]
                         ELSE { [i \in 1..Len(events) |-> ""] } :
           LET relevance == [i \in 1..Len(events) |->
                                IF client THEN "RELEVANT" ELSE ""]
           IN /\ args' = [client |-> client, relevance |-> relevance,
                          analysis |-> analysis]
              /\ results' = DetectDisruptionsAI(events, client, relevance,
                                                analysis)
    /\ op' = "detect_disruptions_ai"
    /\ raised' = FALSE
    /\ ret' = -1
    /\ stats' = NoStats
    /\ UNCHANGED <<pipelineVars, storeVars, issued, threadVars>>

start ==
    /\ is_running' = TRUE
    /\ op' = "start"
    /\ args' = NoArgs
    /\ raised' = FALSE
    /\ ret' = -1
    /\ results' = << >>
    /\ stats' = NoStats
    /\ UNCHANGED <<database, last_refresh, task, events, storeVars, issued,
                   threadVars>>

stop ==
    /\ is_running' = FALSE
    /\ op' = "stop"
    /\ args' = NoArgs
    /\ raised' = FALSE
    /\ ret' = -1
    /\ results' = << >>
    /\ stats' = NoStats
    /\ UNCHANGED <<database, last_refresh, task, events, storeVars, issued,
                   threadVars>>

\* what process_batch returns when the pipeline runs
ProcessBatch(alerts) == ProcessFrom(CollectDataBatch(alerts, << >>, << >>), 1)

\* the services answer dicts whose coordinates and magnitude are numbers
AreAlerts(alerts) ==
    \A i \in 1..Len(alerts) : alerts[i] \in DOMAIN Formatted

\* the alerts the weather service is asked for and answers
Answered(alerts, asked) == IF "weather" \in asked THEN alerts ELSE << >>

\* process_batch().  The weather service, when it is asked, answers the
\* records at hand, and the other services answer nothing (which service an
\* alert comes from makes no difference to _format_for_pathway).  The
\* database commits a row or refuses it, and _store_disruption logs a
\* refusal; SessionLocal() is taken to answer a session.
process_batch ==
    /\ AreAlerts(events)
    /\ IF ~is_running
       THEN /\ results' = << >>
            /\ args' = [asked |-> {}]
            /\ UNCHANGED <<database, last_refresh>>
       ELSE LET asked == Due(last_refresh, now)
                batch == Answered(events, asked)
            IN /\ Len(database) + Len(ProcessBatch(batch)) <= MaxRows
               /\ results' = ProcessBatch(batch)
               /\ args' = [asked |-> asked]
               /\ last_refresh' = Refreshed(last_refresh, asked, now)
               /\ \E committed \in SUBSET (1..Len(ProcessBatch(batch))) :
                    database' = database \o Rows(ProcessBatch(batch), committed, 1)
    /\ op' = "process_batch"
    /\ raised' = FALSE
    /\ ret' = -1
    /\ stats' = NoStats
    /\ UNCHANGED <<is_running, task, events, storeVars, issued, threadVars>>

NextDetect ==
    \/ calculate_disruption_score
    \/ calculate_ai_disruption_score
    \/ calculate_impact_score
    \/ assess_impact
    \/ detect_disruptions
    \/ detect_disruptions_ai
    \/ start
    \/ stop
    \/ process_batch

DetectSpec == InitDetect /\ [][NextDetect]_vars

-----------------------------------------------------------------------------
(* detect_disruptions_ai as a coroutine: it runs until it awaits an answer of
   the model, and goes on when the answer has arrived *)

\* a call of _call_openai for a record
Call(name, prompt) == [record |-> name, prompt |-> prompt]

\* The loop of detect_disruptions_ai from record i on, up to the next
\* _call_openai or to the return.  Without a client no await suspends.
RECURSIVE RunLoop(_, _, _, _, _)
RunLoop(data_batch, client, i, disruptions, calls) ==
    IF i > Len(data_batch)
    THEN [NoTask EXCEPT !.client = client, !.disruptions = disruptions,
                        !.calls = calls]
    ELSE IF \/ Screening[data_batch[i]].raises
            \/ ~Screening[data_batch[i]].basic_relevance
    THEN RunLoop(data_batch, client, i + 1, disruptions, calls)
    ELSE IF client
    THEN [at |-> "relevance", client |-> client, record |-> i,
          response |-> "", disruptions |-> disruptions,
          calls |-> Append(calls, Call(data_batch[i], "relevance"))]
    ELSE RunLoop(data_batch, client, i + 1,
                 disruptions \o ScoreRecordAI(data_batch[i], default_analysis),
                 calls)

\* the coroutine goes on with the answer that has arrived
Resume(data_batch, t) ==
    IF t.at = "relevance"
    THEN IF SaysRelevant(t.response)
         THEN [t EXCEPT !.at = "analysis", !.response = "",
                        !.calls = Append(@, Call(data_batch[t.record],
                                                 "analysis"))]
         ELSE RunLoop(data_batch, t.client, t.record + 1, t.disruptions,
                      t.calls)
    ELSE RunLoop(data_batch, t.client, t.record + 1,
                 t.disruptions
                     \o ScoreRecordAI(data_batch[t.record],
                                      AnalyzeWithAI(TRUE, t.response)),
                 t.calls)

\* the run is where RunLoop or Resume left it; when it has returned, the
\* caller has its disruptions
Continues(t) ==
    /\ task' = t
    /\ op' = "detect_disruptions_ai"
    /\ args' = NoArgs
    /\ results' = IF t.at = "idle" THEN t.disruptions ELSE << >>
    /\ raised' = FALSE
    /\ ret' = -1
    /\ stats' = NoStats
    /\ UNCHANGED <<is_running, database, last_refresh, events, storeVars,
                   issued, threadVars>>

\* a caller holds a batch of records and a detector with or without a
\* model client
InitAI ==
    /\ Constructed
    /\ IsSupplyChain
    /\ dimension = EmbeddingDimension
    /\ events \in Batches
    /\ \E client \in BOOLEAN : task = [NoTask EXCEPT !.client = client]

\* await ai_detector.detect_disruptions_ai(events)
run_detect_disruptions_ai ==
    /\ task.at = "idle"
    /\ Continues(RunLoop(events, task.client, 1, << >>, << >>))

\* openai.ChatCompletion.create answers or raises (_call_openai then
\* answers ""); nothing in the code bounds the time it takes
OpenAIAnswers(at) ==
    IF at = "relevance" THEN RelevanceResponses ELSE AnalysisResponses

call_openai_returns ==
    /\ task.at \in {"relevance", "analysis"}
    /\ task.response = ""
    /\ \E response \in OpenAIAnswers(task.at) :
         task' = [task EXCEPT !.response = response,
                              !.at = IF task.at = "relevance"
                                     THEN "relevance_answered"
                                     ELSE "analysis_answered"]
    /\ UNCHANGED <<is_running, database, last_refresh, events, storeVars,
                   callVars, threadVars>>

\* the event loop resumes the coroutine
resume ==
    /\ task.at \in {"relevance_answered", "analysis_answered"}
    /\ Continues(Resume(events,
                        [task EXCEPT !.at = IF task.at = "relevance_answered"
                                            THEN "relevance"
                                            ELSE "analysis"]))

NextAI ==
    \/ run_detect_disruptions_ai
    \/ call_openai_returns
    \/ resume

AISpec == InitAI /\ [][NextAI]_vars

\* the event loop runs a coroutine that is ready; the model service is
\* under no obligation
FairAISpec == AISpec /\ WF_vars(run_detect_disruptions_ai) /\ WF_vars(resume)
-----------------------------------------------------------------------------
(* Calls of the assessor on DisruptionEvents a caller built *)

\* The disruption scores of the events: those of the tests (0.3, 0.8), the
\* ends of the scale, and 0.606, which the factors 1.1 and 1.2 take to
\* 0.79992
EventScores == { Tenths(3), Tenths(5), Thousandths(606), Tenths(8), Tenths(10) }

EventScopes ==
    { "trade_route_suez_canal", "europe", "middle_east", "regional" }

EventUrgencies == { "immediate", "high", "medium", "low" }

EventTypes ==
    { "natural_disaster", "weather_event", "transportation_disruption",
      "labor_disruption", "general_disruption" }

\* The source_data of the events: none (the dicts of the tests of the
\* score), a location on two routes, a location on one route with a
\* severity, a location on no route, and a location that is None
EventSources ==
    { Dict(EmptyDict),
      Dict([location |-> Str("Suez Canal")]),
      Dict([location |-> Str("Tokyo, Japan"), severity |-> Str("critical")]),
      Dict([location |-> Str("Los Angeles Port"), severity |-> Str("warning")]),
      Dict([location |-> PyNone]) }

\* the dict of a DisruptionEvent with the keys the assessor reads
DisruptionEvent(source_data, disruption_score, disruption_type,
                geographic_scope, urgency_level) ==
    [source_data |-> source_data,
     disruption_score |-> disruption_score,
     disruption_type |-> disruption_type,
     affected_sectors |-> << "general" >>,
     geographic_scope |-> geographic_scope,
     urgency_level |-> urgency_level,
     keywords_matched |-> << >>]

DisruptionEvents ==
    { DisruptionEvent(source_data, disruption_score, disruption_type,
                      geographic_scope, urgency_level) :
        source_data \in EventSources, disruption_score \in EventScores,
        disruption_type \in EventTypes, geographic_scope \in EventScopes,
        urgency_level \in EventUrgencies }

\* a caller holds a DisruptionEvent
InitAssess ==
    /\ Constructed
    /\ IsSupplyChain
    /\ dimension = EmbeddingDimension
    /\ events \in { << disruption >> : disruption \in DisruptionEvents }
    /\ task = NoTask

\* assess_impact(disruption) on the event at hand
assess_disruption_event ==
    /\ op' = "assess_impact"
    /\ args' = [disruption |-> events[1]]
    /\ results' = << AssessImpact(events[1]) >>
    /\ raised' = FALSE
    /\ ret' = -1
    /\ stats' = NoStats
    /\ UNCHANGED <<pipelineVars, storeVars, issued, threadVars>>

\* _calculate_impact_score(disruption) on the event at hand
score_disruption_event ==
    /\ op' = "_calculate_impact_score"
    /\ args' = [disruption |-> events[1]]
    /\ ret' = CalculateImpactScore(events[1])
    /\ raised' = FALSE
    /\ results' = << >>
    /\ stats' = NoStats
    /\ UNCHANGED <<pipelineVars, storeVars, issued, threadVars>>

NextAssess ==
    \/ assess_disruption_event
    \/ score_disruption_event

AssessSpec == InitAssess /\ [][NextAssess]_vars

-----------------------------------------------------------------------------
(* Context retrieval, the stream of PathwayRAGPipeline and the analysis
   endpoint: detection runs that read and feed an index *)

\* " ".join(query_parts) raises on an event that is no dict
QueryRaises(event) == ~IsMapping(event)

\* The query an event gives.  Every event of the model has a title, and its
\* text is one no knowledge base holds.
Query(event) == "alert"

\* metadata.get("type", "") of a search result
DocType(doc) == DictGet(doc.metadata, "type", "")

IsLocationInsight(doc) ==
    In("port", DocType(doc)) \/ In("waterway", DocType(doc))

IsSectorInsight(doc) ==
    /\ ~IsLocationInsight(doc)
    /\ In("sector", DocType(doc)) \/ In("agriculture", DocType(doc))

IsHistoricalPattern(doc) ==
    /\ ~IsLocationInsight(doc)
    /\ ~IsSectorInsight(doc)
    /\ In("pattern", DocType(doc)) \/ In("weather", DocType(doc))

\* the context dict and the loop that fills its buckets
Categorize(relevant_docs) ==
    [relevant_knowledge |-> relevant_docs,
     location_insights |-> SelectSeq(relevant_docs, IsLocationInsight),
     sector_insights |-> SelectSeq(relevant_docs, IsSectorInsight),
     historical_patterns |-> SelectSeq(relevant_docs, IsHistoricalPattern)]

\* get_context_for_event counting the retrieval as an update
GetContextForEventStreamingCounted(s, d, event, t) ==
    [store |-> [s EXCEPT !.update_counter = @ + 1],
     raised |-> QueryRaises(event),
     context |-> << >>]

\* PathwayVectorStore.get_context_for_event(event) at time t: the store
\* after the call, whether it raised, and the context (in a tuple)
GetContextForEventStreaming(s, d, event, t) ==
    IF QueryRaises(event)
    THEN [store |-> s, raised |-> TRUE, context |-> << >>]
    ELSE [store |-> s,
          raised |-> FALSE,
          context |->
              << Categorize(SearchRealTime(s, d, Query(event), 5, 20, t).results)
                 @@ [real_time_updates |-> GetRecentUpdates(s, 30, t)] >>]

\* SupplyChainVectorStore.get_context_for_event(event)
GetContextForEvent(s, d, event) ==
    IF QueryRaises(event)
    THEN [store |-> s, raised |-> TRUE, context |-> << >>]
    ELSE [store |-> s,
          raised |-> FALSE,
          context |->
              << Categorize(Search(s, d, Query(event), 3, 30).results) >>]

\* ', '.join(ai_analysis.get('affected_sectors', [])) raises on what is no
\* list
JoinRaises(affected_sectors) == DOMAIN affected_sectors # {"list"}

\* the metadata add_disruption_event gives the document
DisruptionMetadata(disruption) ==
    Dict([type |-> "historical_disruption",
          location |-> Get(disruption.source_data, "location", Str("")),
          disruption_type |->
              Get(disruption.ai_analysis, "disruption_type", Str("")),
          severity |-> Get(disruption.ai_analysis, "impact_severity", Str("")),
          score |-> disruption.disruption_score])

\* add_disruption_event(disruption): an exception is logged and nothing is
\* added.  The text of the document is one no knowledge base holds.
AddDisruptionEvent(s, d, disruption) ==
    IF JoinRaises(Get(disruption.ai_analysis, "affected_sectors", List(<< >>)))
    THEN s
    ELSE AddDocument(s, d, "alert", DisruptionMetadata(disruption)).store

\* for disruption in disruptions: vector_store.add_disruption_event(disruption)
RECURSIVE AddDisruptionEvents(_, _, _, _)
AddDisruptionEvents(s, d, disruptions, i) ==
    IF i > Len(disruptions) THEN s
    ELSE AddDisruptionEvents(AddDisruptionEvent(s, d, disruptions[i]), d,
                             disruptions, i + 1)

\* the model calls of detect_disruptions_ai from record i on
RECURSIVE BatchCalls(_, _, _, _)
BatchCalls(data_batch, client, relevance, i) ==
    IF i > Len(data_batch) THEN << >>
    ELSE (IF /\ client
             /\ ~Screening[data_batch[i]].raises
             /\ Screening[data_batch[i]].basic_relevance
          THEN << Call(data_batch[i], "relevance") >>
               \o (IF SaysRelevant(relevance[i])
                   THEN << Call(data_batch[i], "analysis") >>
                   ELSE << >>)
          ELSE << >>)
         \o BatchCalls(data_batch, client, relevance, i + 1)

\* the dict _assess_relevance hands to the detector
RelevanceRecord(row) ==
    Dict([title |-> Get(row, "title", Str("")),
          description |-> Get(row, "description", Str("")),
          location |-> Get(row, "location", Str("")),
          event_type |-> Get(row, "event_type", Str(""))])

\* the keyword test of each row of the model, worked out once
RowScreening ==
    [name \in Records |->
        IF IsMapping(Named[name])
        THEN BasicRelevance(RelevanceRecord(Named[name]))
        ELSE FALSE]

\* _assess_relevance(row), given what the model answers: 0.8, 0.2, or 0.0
\* when row.get raises
AssessRelevance(name, client, response) ==
    IF ~IsMapping(Named[name]) THEN 0
    ELSE IF RowScreening[name] /\ (client => SaysRelevant(response))
    THEN Tenths(8)
    ELSE Tenths(2)

\* PathwayRAGPipeline._analyze_with_ai(row), given what the model answers;
\* the except clause answers a dict of its own
AnalyzeRow(name, client, response) ==
    IF ~IsMapping(Named[name])
    THEN Dict([disruption_type |-> Str("unknown"),
               confidence_level |-> Num(Hundredths(50)),
               impact_severity |-> Str("moderate")])
    ELSE AnalyzeWithAI(client, response)

\* the model calls the two columns of a row make
RowCalls(name, client) ==
    (IF client /\ RowScreening[name]
     THEN << Call(name, "relevance") >> ELSE << >>)
    \o (IF client /\ IsMapping(Named[name])
        THEN << Call(name, "analysis") >> ELSE << >>)

\* _update_vector_store(row) at time t
UpdateVectorStore(s, d, row, ai_analysis, t) ==
    AddDocumentStreaming(
        s, d, "alert",
        Dict([source |-> Get(row, "source", Str("unknown")),
              event_type |-> Get(row, "event_type", Str("unknown")),
              location |-> Get(row, "location", Str("")),
              timestamp |-> Get(row, "timestamp", Num(t)),
              processed_at |-> t,
              ai_analysis |-> ai_analysis]),
        t)

\* PathwayRAGPipeline._calculate_disruption_score(row): the except clause
\* answers 0.0
RowScore(ai_analysis) ==
    IF CalculateAIDisruptionScoreRaises(ai_analysis) THEN 0
    ELSE CalculateAIDisruptionScore(ai_analysis, EmptyContext)

\* the records of a stream or of a request
StreamRecords == { "LocalBakery", "PortShutdown", "None" }

Streams == UNION { [1..n -> StreamRecords] : n \in 0..MaxBatch }

\* the answers of the model to the analysis prompt of a row or of an event
\* of a request
LoopAnalyses == { AnalysisComplete, AnalysisNullSectors }

\* The module-level stores are built with the default dimension; the
\* detectors hold a model client or none, as the settings say.
InitLoop ==
    /\ Constructed
    /\ dimension = EmbeddingDimension
    /\ events \in Streams
    /\ \E client \in BOOLEAN : task = [NoTask EXCEPT !.client = client]

\* either get_context_for_event, on one of the events
get_context_for_event ==
    /\ \E i \in 1..Len(events) :
         LET out == IF IsPathway
                    THEN GetContextForEventStreaming(Self, dimension,
                                                     Named[events[i]], now)
                    ELSE GetContextForEvent(Self, dimension, Named[events[i]])
         IN /\ Becomes(out.store)
            /\ results' = out.context
            /\ raised' = out.raised
            /\ args' = [event |-> events[i]]
    /\ op' = "get_context_for_event"
    /\ ret' = -1
    /\ stats' = NoStats
    /\ UNCHANGED <<pipelineVars, store_class, dimension, disk, now, issued,
                   threadVars>>

\* The stream delivers its next row to the pipeline of
\* create_streaming_pipeline: the row is enriched (relevance and analysis,
\* each with its model call), filtered on its relevance, added to the index
\* and scored.  The model finds a row relevant.  _generate_alert only logs.
stream_row ==
    /\ IsPathway
    /\ task.record < Len(events)
    /\ RoomToInsert
    /\ \E response \in IF task.client THEN LoopAnalyses ELSE {""} :
         LET name == events[task.record + 1]
             relevance == AssessRelevance(name, task.client, "RELEVANT")
             ai_analysis == AnalyzeRow(name, task.client, response)
             out == IF relevance > Tenths(3)
                    THEN UpdateVectorStore(Self, dimension, Named[name],
                                           ai_analysis, now)
                    ELSE [store |-> Self, ret |-> -1]
         IN /\ Becomes(out.store)
            /\ Returns(out.ret)
            /\ results' = IF relevance > Tenths(3)
                          THEN << [supply_chain_relevance |-> relevance,
                                   ai_analysis |-> ai_analysis,
                                   disruption_score |-> RowScore(ai_analysis)] >>
                          ELSE << >>
            /\ args' = [row |-> name, response |-> response]
            /\ task' = [task EXCEPT !.record = @ + 1,
                                    !.calls = RowCalls(name, task.client)]
    /\ op' = "stream_row"
    /\ raised' = FALSE
    /\ stats' = NoStats
    /\ UNCHANGED <<is_running, database, last_refresh, events, store_class,
                   dimension, disk, now, threadVars>>

\* POST /api/v1/ai/analyze/disruptions with the events at hand: detection,
\* the report (which changes nothing here), then the feedback loop.  The
\* model finds every event relevant.  A request without events is refused.
analyze_disruptions_ai ==
    /\ IsSupplyChain
    /\ Len(index) + Len(events) <= MaxInserts + BaseVectors
    /\ \E analysis \in IF task.client
                       THEN [1..Len(events) -> LoopAnalyses]
                       ELSE { [i \in 1..Len(events) |-> ""] } :
         LET relevance == [i \in 1..Len(events) |->
                              IF task.client THEN "RELEVANT" ELSE ""]
         IN /\ results' = DetectDisruptionsAI(events, task.client, relevance,
                                              analysis)
            /\ Becomes(AddDisruptionEvents(
                           Self, dimension,
                           DetectDisruptionsAI(events, task.client, relevance,
                                               analysis), 1))
            /\ args' = [analysis |-> analysis]
            /\ task' = [task EXCEPT
                          !.calls = BatchCalls(events, task.client, relevance, 1)]
    /\ op' = "analyze_disruptions_ai"
    /\ raised' = (events = << >>)
    /\ ret' = -1
    /\ stats' = NoStats
    /\ UNCHANGED <<is_running, database, last_refresh, events, store_class,
                   dimension, disk, now, issued, threadVars>>

NextLoop ==
    \/ get_context_for_event
    \/ stream_row
    \/ analyze_disruptions_ai
    \/ Tick

LoopSpec == InitLoop /\ [][NextLoop]_vars

-----------------------------------------------------------------------------
(* The refresh schedule of SupplyChainPipeline *)

\* what the weather service may answer
Feeds == { << >>, << "PortShutdown" >> }

\* a pipeline, and the alerts the weather service has
InitRefresh ==
    /\ Constructed
    /\ IsSupplyChain
    /\ dimension = EmbeddingDimension
    /\ events \in Feeds
    /\ task = NoTask

\* a minute passes
clock ==
    /\ now < MaxClock
    /\ now' = now + 1
    /\ UNCHANGED <<pipelineVars, store_class, dimension, index, documents,
                   metadata, update_counter, last_update_time, disk>>
    /\ UNCHANGED <<callVars, threadVars>>

\* collect_data_batch(): each source that is due is asked; its try block
\* comes to the line that sets last_refresh, or raises before it (then what
\* it had appended stays in the batch; here it had appended nothing)
collect_data_batch ==
    /\ \E raises \in SUBSET Due(last_refresh, now) :
         LET asked == Due(last_refresh, now)
         IN /\ args' = [asked |-> asked, raises |-> raises, at |-> now,
                        before |-> last_refresh]
            /\ results' = CollectDataBatch(Answered(events, asked \ raises),
                                           << >>, << >>)
            /\ last_refresh' = Refreshed(last_refresh, asked \ raises, now)
    /\ op' = "collect_data_batch"
    /\ raised' = FALSE
    /\ ret' = -1
    /\ stats' = NoStats
    /\ UNCHANGED <<is_running, database, task, events, storeVars, issued,
                   threadVars>>

\* get_status()
get_status ==
    /\ op' = "get_status"
    /\ args' = [at |-> now]
    /\ results' = << GetStatus(is_running, last_refresh) >>
    /\ raised' = FALSE
    /\ ret' = -1
    /\ stats' = NoStats
    /\ UNCHANGED <<pipelineVars, storeVars, issued, threadVars>>

NextRefresh ==
    \/ clock
    \/ collect_data_batch
    \/ get_status

RefreshSpec == InitRefresh /\ [][NextRefresh]_vars

-----------------------------------------------------------------------------
(* Properties *)

InsertOps == {"add_document_streaming", "_pathway_add_document", "add_document"}

SearchOps == {"search_real_time", "search"}

\* the call that returned last was an insert that really embedded its text
\* (json.loads did not stop _pathway_add_document before the insert)
InsertReturned ==
    /\ op \in InsertOps
    /\ ~(op = "_pathway_add_document" /\ JsonLoadsRaises(args.metadata))

\* the embedding step of the call that returned last failed
EmbeddingFailed == EncodeRaises(args.text) \/ FaissRaises(dimension)

\* labels (from 0) of the vectors whose inner product with the query text is
\* at least the threshold
Matching(query, threshold) ==
    { i \in 0..(Len(index) - 1) : InnerProduct(index[i + 1], Encode(query)) >= threshold }

\* C1: once add_document_streaming(T, m) has returned a non-negative id, a
\* later search_real_time whose query is T, with k >= 1 and threshold <= 1,
\* returns a result whose document is T, whenever no other indexed document
\* is at least as similar to the query.
C1_ImmediateVisibility ==
    \A n \in 1..Len(issued) :
        ( /\ IsPathway
          /\ op = "search_real_time"
          /\ args.k >= 1
          /\ args.threshold <= 100
          /\ issued[n] < Len(documents)
          /\ args.text = documents[issued[n] + 1]
          /\ Matching(args.text, 100) = {issued[n]} )
        => \E r \in 1..Len(results) : results[r].document = args.text

\* C2: after any sequence of add_document_streaming calls the index, the
\* document list and the metadata list of a PathwayVectorStore have the same
\* length, position by position the vector is the embedding of the text, and
\* an insert that returned an id left its text and its metadata at that id.
C2_AtomicAppend ==
    IsPathway =>
        /\ Len(index) = Len(documents)
        /\ Len(documents) = Len(metadata)
        /\ \A i \in 1..Len(documents) :
              i <= Len(index) => index[i] = Encode(documents[i])
        /\ (InsertReturned /\ ret >= 0) =>
              /\ ret < Len(documents) /\ documents[ret + 1] = args.text
              /\ ret < Len(metadata) /\ metadata[ret + 1]["update_id"] = update_counter - 1

C6_EmbeddingFailure ==
    [][ /\ (InsertReturned' /\ EmbeddingFailed')
           => /\ ret' = -1
              /\ index' = index
              /\ documents' = documents
              /\ metadata' = metadata
              /\ update_counter' = update_counter
              /\ last_update_time' = last_update_time
        /\ (op' \in SearchOps /\ EmbeddingFailed')
           => /\ results' = << >>
              /\ ~raised' ]_vars

\* a failed insert and a failed search on an index that holds documents
C6_Witness ==
    /\ op \in InsertOps \cup SearchOps
    /\ EncodeRaises(args.text)
    /\ Len(documents) > Len(PathwayBaseKnowledge)
    /\ now > last_update_time

\* C8: a search on an index that holds no documents returns [] and raises
\* nothing, whatever the query, k and threshold.
C8_EmptyIndexSafety ==
    (op \in SearchOps /\ Len(documents) = 0 /\ Len(index) = 0)
        => (results = << >> /\ ~raised)

\* a search with a well-formed query on an empty index
C8_Witness ==
    /\ op = "search"
    /\ Len(documents) = 0
    /\ ~EncodeRaises(args.text)
    /\ args.k = 12
    /\ args.threshold = FaissPadScore

\* the labels a correct search returns from place n on: of the matching
\* labels not yet listed, the highest inner product first and, of equal
\* ones, the earliest insert first
RECURSIVE Ranked(_, _, _)
Ranked(query, left, n) ==
    IF left = {} \/ n = 0 THEN << >>
    ELSE LET best == CHOOSE i \in left : \A j \in left :
                        \/ InnerProduct(index[i + 1], Encode(query))
                             > InnerProduct(index[j + 1], Encode(query))
                        \/ /\ InnerProduct(index[i + 1], Encode(query))
                                = InnerProduct(index[j + 1], Encode(query))
                           /\ i <= j
         IN << best >> \o Ranked(query, left \ {best}, n - 1)

\* results is what the claim says of the labels in want
ShapedAs(want) ==
    /\ Len(results) = Len(want)
    /\ \A r \in 1..Len(want) :
          /\ r <= Len(results)
          /\ want[r] < Len(documents) /\ results[r].document = documents[want[r] + 1]
          /\ want[r] < Len(metadata) /\ results[r].metadata = metadata[want[r] + 1]
          /\ results[r].score = InnerProduct(index[want[r] + 1], Encode(args.text))
          /\ results[r].rank = r

\* C9: a search with k >= 1 returns exactly the (at most k) most similar of
\* the indexed documents whose score is >= threshold, by descending score
\* and, of equal scores, in insertion order, each with its own metadata and
\* with ranks 1, 2, ..., n.
C9_ResultShape ==
    (op \in SearchOps /\ args.k >= 1 /\ ~EmbeddingFailed)
        => ShapedAs(Ranked(args.text, Matching(args.text, args.threshold), args.k))

\* no counter of the report after is below the one of the report before,
\* and the report after counts as many documents as vectors
NeverDecreases(before, after) ==
    /\ after.total_documents >= before.total_documents
    /\ after.index_size >= before.index_size
    /\ after.update_counter >= before.update_counter
    /\ after.last_update >= before.last_update
    /\ after.total_documents = after.index_size

\* C10: the total_documents, index_size, update_counter and last_update that
\* get_real_time_stats reports, and the value of get_current_size, never
\* decrease from one state of a PathwayVectorStore to the next, and
\* total_documents equals index_size.
C10_StatsMonotone ==
    [][ IsPathway =>
          /\ NeverDecreases(StatsCounters(Self), StatsCounters(Self'))
          /\ GetCurrentSize(Self') >= GetCurrentSize(Self)
          /\ (op' = "get_real_time_stats"
                => \A f \in DOMAIN StatsCounters(Self') : stats'[f] = StatsCounters(Self')[f])
          /\ (op' = "get_current_size" => ret' = StatsCounters(Self').total_documents) ]_vars

\* a report made after an insert that failed on its metadata and one that
\* succeeded at a later time
C10_Witness ==
    /\ op = "get_real_time_stats"
    /\ stats.total_documents = Len(PathwayBaseKnowledge) + 2
    /\ stats.update_counter = Len(PathwayBaseKnowledge) + 1
    /\ stats.last_update > 0

\* C7: once an insert has returned an id, the text and the metadata stored
\* under that id never change and are never removed, and the number of
\* documents never decreases.
C7_AppendOnly ==
    [][ /\ Len(documents') >= Len(documents)
        /\ \A n \in 1..Len(issued) :
              (issued[n] < Len(documents) /\ issued[n] < Len(metadata))
              => /\ issued[n] < Len(documents')
                 /\ issued[n] < Len(metadata')
                 /\ documents'[issued[n] + 1] = documents[issued[n] + 1]
                 /\ metadata'[issued[n] + 1] = metadata[issued[n] + 1] ]_vars

\* thread t holds self.lock inside a read-only method
Reading(t) ==
    pc[t] \in {"read", "release"} /\ frame[t].call \in PathwayReaders

\* thread t is between the first and the last statement of an insert
Inserting(t) ==
    /\ frame[t].call \in InsertCalls
    /\ pc[t] \in {"index_add", "append_document", "append_metadata", "doc_id",
                  "release"}

\* C3: a read-only method of PathwayVectorStore that runs while an insert of
\* another thread is in flight reads the object before that insert or after
\* it, never in between, and what it reads holds no half-written document:
\* as many vectors as texts, as many texts as metadata records, and an
\* update_counter equal to the number of documents.
C3_NoHalfWrittenDocument ==
    IsPathway =>
        \A t \in Threads :
            /\ Reading(t) => \A u \in Threads \ {t} : ~Inserting(u)
            /\ (seen[t].call \in PathwayReaders /\ seen[t].concurrent)
                 => /\ seen[t].observed.vectors = seen[t].observed.texts
                    /\ seen[t].observed.texts = seen[t].observed.records
                    /\ seen[t].observed.counter = seen[t].observed.texts

\* the dict add_document stores for argument m
StoredMetadata(m) == IF Truthy(m) THEN m.value ELSE EmptyDict

\* thread t's last call was an add_document that overlapped another insert
\* and returned an id
AddedConcurrently(t) ==
    seen[t].call = "add_document" /\ seen[t].concurrent /\ seen[t].ret >= 0

\* C5: two add_document calls of different threads that overlap return
\* distinct ids, each id is the position of the caller's own text and
\* metadata, and a search or get_stats that overlaps an add_document raises
\* nothing and returns a result for every slot of the FAISS answer whose
\* score passes the threshold.
C5_SingleConsistencyDomain ==
    IsSupplyChain =>
        \A t \in Threads :
            /\ \A u \in Threads \ {t} :
                 (AddedConcurrently(t) /\ AddedConcurrently(u))
                   => seen[t].ret # seen[u].ret
            /\ AddedConcurrently(t)
                 => /\ seen[t].ret < Len(documents)
                    /\ documents[seen[t].ret + 1] = seen[t].text
                    /\ seen[t].ret < Len(metadata)
                    /\ metadata[seen[t].ret + 1] = StoredMetadata(seen[t].metadata)
            /\ (seen[t].call \in {"search", "get_stats"} /\ seen[t].concurrent)
                 => /\ ~seen[t].raised
                    /\ Len(seen[t].results) = seen[t].qualifying

ScoreOps ==
    {"_calculate_disruption_score", "_calculate_ai_disruption_score",
     "_calculate_impact_score"}

\* C11: whatever the event and the model analysis, the score a scorer
\* returns (the heuristic disruption score, the model-assisted disruption
\* score, the impact score) is at least 0 and at most 1.
C11_ScoreBounded ==
    (op \in ScoreOps /\ ~raised) => (0 <= ret /\ ret <= Tenths(10))

\* the gate lets the record through and its score is at least 0.3
Passes(scoring) ==
    /\ ~scoring.gate_raises
    /\ scoring.relevant
    /\ ~scoring.score_raises
    /\ scoring.score >= Tenths(3)

PassesGateAndThreshold(name) == Passes(Scoring[name])

\* C12: detect_disruptions returns, in input order, exactly one disruption
\* for each record that passes the relevance gate with a score of at least
\* 0.3, and nothing for any other record; no disruption whose score is
\* below 0.3 and none whose record the gate rejects is in what the detector
\* or process_batch returns.
C12_ThresholdAndGate ==
    /\ op = "detect_disruptions" =>
          /\ Len(results) = Len(SelectSeq(events, PassesGateAndThreshold))
          /\ \A n \in 1..Len(results) :
                /\ results[n].source_data
                      = Named[SelectSeq(events, PassesGateAndThreshold)[n]]
                /\ results[n].disruption_score
                      = Scoring[SelectSeq(events, PassesGateAndThreshold)[n]].score
    /\ op = "process_batch" =>
          \A n \in 1..Len(results) :
              /\ results[n].disruption_data.disruption_score >= Tenths(3)
              /\ \E i \in 1..Len(events) :
                    /\ results[n].disruption_data.source_data
                          = Formatted[events[i]]
                    /\ Passes(FormattedScoring[events[i]])
                    /\ results[n].disruption_data.disruption_score
                          = FormattedScoring[events[i]].score

\* a pipeline run on Scenario D and a record the detector retains
C12_Witness ==
    /\ op = "process_batch"
    /\ is_running
    /\ events = << "LocalBakery", "PortShutdown" >>
    /\ Len(results) = 1

\* C20: the event of Scenario B is scored at 0.6 or more, and the detector
\* makes of it one disruption with that score and the type
\* natural_disaster.
C20_ScenarioB ==
    /\ (op = "_calculate_disruption_score" /\ args.record = "EarthquakeJapan")
          => (~raised /\ ret >= Tenths(6))
    /\ (op = "detect_disruptions" /\ events = << "EarthquakeJapan" >>)
          => /\ Len(results) = 1
             /\ results[1].disruption_score >= Tenths(6)
             /\ results[1].disruption_type = "natural_disaster"
\* the assessment the last call of assess_impact returned carries an
\* impact score
Assessed == op = "assess_impact" /\ ~results[1].error

\* C21: every assessment that carries an impact score carries at least one
\* mitigation strategy, whatever the type of the disruption and its score.
C21_MitigationNeverEmpty ==
    Assessed => results[1].mitigation_strategies # << >>

\* C22: in every assessment, severity_level is the bucket of the
\* impact_score the same assessment reports: critical from 0.8, high from
\* 0.6, medium from 0.4, low below.
C22_SeverityBucketing ==
    Assessed =>
        results[1].severity_level =
            (CASE results[1].impact_score >= 80000 -> "critical"
               [] results[1].impact_score >= 60000
                  /\ results[1].impact_score < 80000 -> "high"
               [] results[1].impact_score >= 40000
                  /\ results[1].impact_score < 60000 -> "medium"
               [] OTHER -> "low")

\* the factor of the claim for a geographic scope, in tenths
ClaimedScopeFactor(geographic_scope) ==
    IF /\ Len(geographic_scope) > 12
       /\ SubSeq(geographic_scope, 1, 12) = "trade_route_"
    THEN 13
    ELSE IF geographic_scope \in {"asia_pacific", "europe", "north_america"}
    THEN 11
    ELSE 10

\* the factor of the claim for an urgency, in tenths
ClaimedUrgencyFactor ==
    [immediate |-> 13, high |-> 12, medium |-> 10, low |-> 8]

\* C23: the impact score is the disruption score times the factor of the
\* scope (1.3 for a trade route, 1.1 for asia_pacific, europe and
\* north_america, else 1) times the factor of the urgency (1.3, 1.2, 1.0,
\* 0.8), and 1.0 when that is more; so it is at most 1.0, and an event with
\* the same scope and urgency and a score that is not higher has an impact
\* score that is not higher.
C23_ImpactFormula ==
    op = "_calculate_impact_score" =>
        LET disruption == args.disruption
            product == (disruption.disruption_score
                        * ClaimedScopeFactor(disruption.geographic_scope)
                        * ClaimedUrgencyFactor[disruption.urgency_level])
                       \div 100
        IN /\ ret = (IF product > 100000 THEN 100000 ELSE product)
           /\ ret <= 100000
           /\ \A lower \in EventScores :
                 lower <= disruption.disruption_score =>
                     CalculateImpactScore(
                         [disruption EXCEPT !.disruption_score = lower]) <= ret

\* the event of Scenario C was scored: 0.8 * 1.3 * 1.3 is cut to 1.0
C23_Witness ==
    /\ op = "_calculate_impact_score"
    /\ args.disruption.disruption_score = 80000
    /\ args.disruption.geographic_scope = "trade_route_suez_canal"
    /\ args.disruption.urgency_level = "immediate"
    /\ ret = 100000

\* the lower-cased location of the event an assessment was made of
AssessedLocation ==
    Lower(Get(args.disruption.source_data, "location", Str("")).str)

\* C24: the assessment of an event with disruption_score 0.8, scope
\* trade_route_suez_canal and urgency immediate has an impact_score above
\* 0.8, the severity critical and suez_canal among its affected routes; and
\* the affected routes of any assessment are exactly the routes of the table
\* with a location keyword that is a part of the location of the event.
C24_ScenarioC ==
    Assessed =>
        /\ (/\ args.disruption.disruption_score = 80000
            /\ args.disruption.geographic_scope = "trade_route_suez_canal"
            /\ args.disruption.urgency_level = "immediate")
              => /\ results[1].impact_score > 80000
                 /\ results[1].severity_level = "critical"
                 /\ \E n \in 1..Len(results[1].affected_routes) :
                       results[1].affected_routes[n] = "suez_canal"
        /\ { results[1].affected_routes[n] :
               n \in 1..Len(results[1].affected_routes) }
              = { trade_routes[r].route :
                    r \in { q \in 1..Len(trade_routes) :
                              \E k \in 1..Len(trade_routes[q].locations) :
                                  In(trade_routes[q].locations[k],
                                     AssessedLocation) } }

\* C29: a disruption the detector made of an earthquake or weather event
\* whose severity is critical, warning or watch has a type that is a key of
\* the duration table, and its assessment estimates the days of the row of
\* the event type with confidence 0.7.
C29_TypeVocabulary ==
    (/\ Assessed
     /\ Get(args.disruption.source_data, "event_type", Str("")).str
            \in {"earthquake", "weather"}
     /\ Get(args.disruption.source_data, "severity", Str("watch")).str
            \in {"critical", "warning", "watch"})
        => /\ args.disruption.disruption_type
                 \in {"earthquake", "weather", "labor_disruption",
                      "transportation_disruption"}
           /\ results[1].duration_estimate.confidence = 70000
           /\ results[1].duration_estimate.estimated_avg_days =
                 duration_map[Get(args.disruption.source_data, "event_type",
                                  Str("")).str]
                             [Get(args.disruption.source_data, "severity",
                                  Str("watch")).str]

\* C14: a batch call that waits for the model gets on: the run returns,
\* whether or not the model answers.
C14_HungCallDoesNotStall == (task.at # "idle") ~> (task.at = "idle")

\* answers to the analysis prompt that are no analysis: empty text, text
\* that is not JSON, JSON that is not a record, and a record whose values
\* are outside the enumerations
UnusableAnalyses == { "", "I think it is bad", "[]", AnalysisUnknownValues }

\* the record passes both stages of the gate of the model-assisted detector
PassesGateAI(name, client, relevance) ==
    /\ ~Screening[name].raises
    /\ IsSupplyChainRelevantAI(name, client, relevance)

\* C15: when there is no client or the answer to the analysis prompt is
\* empty, not JSON, or JSON that is not a record with the enumeration
\* values, the analysis used for scoring is the default record, scoring
\* does not raise, and detect_disruptions_ai retains the event with that
\* analysis.
C15_ModelOutputFallback ==
    /\ (/\ op = "_calculate_ai_disruption_score"
        /\ ~args.client \/ args.response \in UnusableAnalyses)
          => (args.ai_analysis = default_analysis /\ ~raised)
    /\ op = "detect_disruptions_ai" =>
          \A i \in 1..Len(events) :
              (/\ PassesGateAI(events[i], args.client, args.relevance[i])
               /\ ~args.client \/ args.analysis[i] \in UnusableAnalyses)
                  => \E n \in 1..Len(results) :
                        /\ results[n].source_data = Named[events[i]]
                        /\ results[n].ai_analysis = default_analysis

\* the sequence without its i-th element
Without(seq, i) == SubSeq(seq, 1, i - 1) \o SubSeq(seq, i + 1, Len(seq))

\* the gate or the scorer of the detector raises for the record
RaisesInDetect(scoring) ==
    \/ scoring.gate_raises
    \/ scoring.relevant /\ scoring.score_raises

\* the gate or the scorer of the model-assisted detector raises for the
\* record, given the answers of the model
RaisesInDetectAI(name, client, relevance, analysis) ==
    \/ Screening[name].raises
    \/ /\ IsSupplyChainRelevantAI(name, client, relevance)
       /\ CalculateAIDisruptionScoreRaises(AnalyzeWithAI(client, analysis))

\* the detector or the assessor raises for each alert of the model, worked
\* out once
RaisesInProcess ==
    [name \in DOMAIN Formatted |->
        \/ RaisesInDetect(FormattedScoring[name])
        \/ /\ DetectRow(Formatted[name]) # << >>
           /\ AssessImpactRaises(DetectRow(Formatted[name])[1])]

\* C16: a batch call returns normally, and when a record of the batch
\* raises at the relevance gate, at scoring or at impact assessment, the
\* call returns what it returns for the batch without that record
\* (detect_disruptions, detect_disruptions_ai under the same answers of
\* the model for the other records, and process_batch).
C16_BadEventSkipped ==
    /\ op \in {"detect_disruptions", "detect_disruptions_ai", "process_batch"}
          => ~raised
    /\ op = "detect_disruptions" =>
          \A i \in 1..Len(events) :
              RaisesInDetect(Scoring[events[i]])
                  => results = DetectDisruptions(Without(events, i))
    /\ op = "detect_disruptions_ai" =>
          \A i \in 1..Len(events) :
              RaisesInDetectAI(events[i], args.client, args.relevance[i],
                               args.analysis[i])
                  => results = DetectDisruptionsAI(Without(events, i),
                                                   args.client,
                                                   Without(args.relevance, i),
                                                   Without(args.analysis, i))
    /\ (op = "process_batch" /\ is_running /\ "weather" \in args.asked) =>
          \A i \in 1..Len(events) :
              RaisesInProcess[events[i]]
                  => results = ProcessBatch(Without(events, i))

\* the detector was given None and then a record it retains
C16_Witness ==
    /\ op = "detect_disruptions"
    /\ events = << "None", "PortShutdown" >>
    /\ Len(results) = 1
    /\ results[1].source_data = PortShutdown

\* the elements of a list
Elements(list) == { list[n] : n \in 1..Len(list) }

\* the context the last get_context_for_event returned
Context == results[1]

\* the buckets of the context that hold a result
BucketsOf(doc) ==
    { bucket \in {"location_insights", "sector_insights",
                  "historical_patterns"} :
        doc \in Elements(Context[bucket]) }

\* C25: get_context_for_event places each retrieved result in the bucket of
\* its declared metadata type: port and waterway information in
\* location_insights, sector information in sector_insights, the historical
\* disruption records that add_disruption_event feeds back in
\* historical_patterns; every bucketed result is a retrieved result, and no
\* result is in two buckets.
C25_ContextPartition ==
    (op = "get_context_for_event" /\ ~raised) =>
        /\ \A doc \in Elements(Context.relevant_knowledge) :
              /\ DocType(doc) \in {"port_info", "waterway_info"}
                    => BucketsOf(doc) = {"location_insights"}
              /\ DocType(doc) = "sector_info"
                    => BucketsOf(doc) = {"sector_insights"}
              /\ DocType(doc) = "historical_disruption"
                    => BucketsOf(doc) = {"historical_patterns"}
              /\ Cardinality(BucketsOf(doc)) <= 1
        /\ \A bucket \in {"location_insights", "sector_insights",
                          "historical_patterns"} :
              Elements(Context[bucket])
                  \subseteq Elements(Context.relevant_knowledge)

\* the ids of the documents the store was given: those of the base
\* knowledge and those the insert calls returned
InsertedIds == (0..(BaseVectors - 1)) \cup Elements(issued)

\* C26: get_recent_updates(minutes) returns the documents inserted within
\* the last minutes and no older one, one entry per document with the id
\* and the metadata of that document, newest first.  Every document was
\* inserted within a window longer than the time that had passed at the
\* call.
C26_RecentWindow ==
    op = "get_recent_updates" =>
        /\ \A n \in 1..Len(results) :
              /\ results[n].added_at > args.at - args.minutes
              /\ results[n].document_id \in InsertedIds
              /\ results[n].metadata = metadata[results[n].document_id + 1]
              /\ results[n].added_at = results[n].metadata["added_at"]
        /\ \A n, m \in 1..Len(results) :
              /\ n < m => results[n].added_at >= results[m].added_at
              /\ n # m => results[n].document_id # results[m].document_id
        /\ args.minutes > args.at =>
              { results[n].document_id : n \in 1..Len(results) } = InsertedIds

PassesKeywordGate(name) == Screening[name].basic_relevance

\* C28: a detector without a model client retains exactly the records that
\* pass the keyword gate, in their order, each with a disruption score of
\* 0.38 or more, whatever their severity, magnitude, confidence or
\* keywords.
C28_NoClientKeepsGated ==
    (op = "detect_disruptions_ai" /\ ~args.client) =>
        /\ Len(results) = Len(SelectSeq(events, PassesKeywordGate))
        /\ \A n \in 1..Len(results) :
              /\ results[n].source_data
                    = Named[SelectSeq(events, PassesKeywordGate)[n]]
              /\ results[n].disruption_score >= 38000

\* a detector without a client was given Scenario D and a record whose
\* confidence is below zero, and retained the second
C28_Witness ==
    /\ op = "detect_disruptions_ai"
    /\ ~args.client
    /\ events = << "LocalBakery", "PortClosed" >>
    /\ Len(results) = 1
    /\ results[1].source_data = PortClosed

\* the earliest time at which _should_refresh(source) is true again
NextDue(last, source) == last[source] + refresh_intervals[source]

\* C30: collect_data_batch fetches a source again only when its own
\* refresh interval has passed since its last successful fetch; a fetch
\* that raised leaves last_refresh as it was, so the source is still due;
\* and get_status reports for each source a next_refresh of its
\* last_refresh plus its own interval, the earliest time at which
\* _should_refresh is true for it.
C30_RefreshSchedule ==
    /\ op = "collect_data_batch" =>
          /\ \A source \in args.asked :
                \/ source \notin DOMAIN args.before
                \/ args.at >= NextDue(args.before, source)
          /\ \A source \in args.raises :
                /\ source \in DOMAIN last_refresh
                      <=> source \in DOMAIN args.before
                /\ source \in DOMAIN last_refresh
                      => last_refresh[source] = args.before[source]
                /\ ShouldRefresh(last_refresh, source, args.at)
          /\ \A source \in args.asked \ args.raises :
                last_refresh[source] = args.at
    /\ op = "get_status" =>
          \A source \in DOMAIN last_refresh :
              /\ results[1].next_refresh[source]
                    = Isoformat(NextDue(last_refresh, source))
              /\ \A t \in 0..MaxClock :
                    ShouldRefresh(last_refresh, source, t)
                        <=> t >= NextDue(last_refresh, source)

\* C13: every call to the model service is made for an event that passes
\* the keyword test; for an event that fails it no call is made.
C13_GateBeforeModel ==
    \A n \in 1..Len(task.calls) :
        Screening[task.calls[n].record].basic_relevance

\* the row the stream delivered last was delivered before
DeliveredBefore(rows, n) == \E j \in 1..(n - 1) : rows[j] = rows[n]

\* C17: a row the stream delivers a second time leaves the index as it is
\* (documents, metadata, vectors and update_counter) and yields no further
\* scored event.
C17_DuplicateIsNoOp ==
    [][(op' = "stream_row" /\ DeliveredBefore(events, task'.record))
          => /\ UNCHANGED <<index, documents, metadata, update_counter>>
             /\ results' = << >>]_vars

\* C18: every disruption a run of the analysis endpoint emits is added to
\* the index as a new document.
C18_ClosingTheLoop ==
    [][op' = "analyze_disruptions_ai"
          => /\ Len(documents') = Len(documents) + Len(results')
             /\ Len(index') = Len(index) + Len(results')]_vars

\* C19: get_context_for_event leaves the document list, the metadata list,
\* the search index, update_counter and last_update_time as they are, for
\* every event and both index classes.
C19_ContextReadOnly ==
    [][op' = "get_context_for_event"
          => UNCHANGED <<index, documents, metadata, update_counter,
                         last_update_time>>]_vars

\* a context with knowledge in it was retrieved from an index the stream
\* has fed
C19_Witness ==
    /\ op = "get_context_for_event"
    /\ IsPathway
    /\ update_counter > Len(PathwayBaseKnowledge)
    /\ ~raised
    /\ results[1].relevant_knowledge # << >>
    /\ results[1].real_time_updates # << >>

=============================================================================
